---------------------------- MODULE Spec2Model ----------------------------
(***************************************************************************)
(* Model of the SnuPL/1 abstract syntax tree (snuplc/src/ast.cpp): the     *)
(* recursive type checker (TypeCheck) and the lowering of the tree to      *)
(* three-address code (ToTac).  A tree is a record with a "kind" field;    *)
(* a statement chain is a sequence; the token of a node is modelled by the *)
(* node's path from the root of the tree under analysis.                   *)
(***************************************************************************)
EXTENDS Integers, Sequences, FiniteSets, TLC

VARIABLES node,   \* the tree under analysis (scope, statement or expression)
          pc,     \* "built" | "checked" | "lowered"
          tc,     \* outcome of TypeCheck: [ok, t, msg, log]
          cb,     \* the code block: [instrs, nlabel, ntemp]
          raw,    \* the instructions of cb when CleanupControlFlow was called
          ret,    \* the address returned by the last ToTac call
          form,   \* which lowering ran: "none" | "scope" | "stat" | "value" | "cond"
          order   \* the build's evaluation order of the operands of a call

vars == <<node, pc, tc, cb, raw, ret, form, order>>

----------------------------------------------------------------------------
(* Bounds of the model.                                                    *)

\* largest number of statements in one statement chain of a generated scope
MaxChain == 2
\* largest number of arguments of a generated call
MaxArgs == 2
\* largest number of child scopes of a generated scope
MaxChildren == 2
\* largest number of operator nodes of a generated well-typed expression
MaxOps == 2

----------------------------------------------------------------------------
(* Type descriptors (CTypeManager / CType, collaborators of ast.cpp).      *)

IntT  == [k |-> "integer"]
BoolT == [k |-> "boolean"]
CharT == [k |-> "char"]
\* the distinguished null type (CTypeManager::GetNull)
NullT == [k |-> "NULL"]
\* a C++ NULL type pointer: "no type"
NoType == [k |-> "none"]
\* what a call yields that calls a member function through a NULL pointer:
\* the call does not return, the process is killed by SIGSEGV
Segv == [k |-> "SIGSEGV"]

PointerTo(t) == [k |-> "ptr", base |-> t]
\* a one-dimensional array of n elements of type t; a multi-dimensional array
\* is an array of arrays
ArrayOf(n, t) == [k |-> "arr", n |-> n, base |-> t]

IsNull(t)    == t.k = "NULL"
IsPointer(t) == t.k = "ptr"
IsArray(t)   == t.k = "arr"
IsScalar(t)  == t.k \in {"integer", "boolean", "char", "NULL", "ptr"}

\* a->Match(b): structural equality; a NULL argument matches nothing
Match(a, b) == b # NoType /\ a = b

\* CPointerType::GetBaseType
PtrBase(t) == t.base
\* CArrayType::GetInnerType
InnerType(t) == t.base

RECURSIVE NDim(_)
\* CArrayType::GetNDim
NDim(t) == IF IsArray(t) THEN 1 + NDim(t.base) ELSE 0

RECURSIVE ElemType(_)
\* CArrayType::GetBaseType: the element type below all dimensions
ElemType(t) == IF IsArray(t) THEN ElemType(t.base) ELSE t

\* CType::GetSize of a scalar
SizeOf(t) == IF t.k \in {"integer", "ptr"} THEN 4 ELSE 1

----------------------------------------------------------------------------
(* Abstract syntax tree nodes.                                             *)

NoExpr == [kind |-> "none"]

VarSym(name, type) == [name |-> name, type |-> type]
ProcSym(name, rtype, params) == [name |-> name, type |-> rtype, params |-> params]

Constant(type, value)  == [kind |-> "const", type |-> type, value |-> value]
Designator(sym)        == [kind |-> "desig", sym |-> sym]
ArrayDesignator(sym, idx) == [kind |-> "arraydesig", sym |-> sym, idx |-> idx]
FunctionCall(sym, args)   == [kind |-> "call", sym |-> sym, args |-> args]
UnaryOp(oper, e)       == [kind |-> "unary", oper |-> oper, operand |-> e]
BinaryOp(oper, l, r)   == [kind |-> "binary", oper |-> oper, left |-> l, right |-> r]
SpecialOp(oper, e, type) == [kind |-> "special", oper |-> oper, operand |-> e, type |-> type]

StatAssign(lhs, rhs)   == [kind |-> "assign", lhs |-> lhs, rhs |-> rhs]
StatCall(call)         == [kind |-> "statcall", call |-> call]
StatReturn(scopeType, e) == [kind |-> "return", scope |-> scopeType, expr |-> e]
StatIf(cond, ifBody, elseBody) ==
  [kind |-> "if", cond |-> cond, ifBody |-> ifBody, elseBody |-> elseBody]
StatWhile(cond, body)  == [kind |-> "while", cond |-> cond, body |-> body]

\* a module has the null type, a procedure the type of its symbol
Scope(type, stats, children) ==
  [kind |-> "scope", type |-> type, stats |-> stats, children |-> children]

ArithOps == {"opAdd", "opSub", "opMul", "opDiv"}
LogicOps == {"opAnd", "opOr"}
EqOps    == {"opEqual", "opNotEqual"}
OrdOps   == {"opLessThan", "opLessEqual", "opBiggerThan", "opBiggerEqual"}
\* IsRelOp of the intermediate representation
IsRelOp(oper) == oper \in EqOps \cup OrdOps

\* INT_MAX of the 32-bit int
MaxInt32 == 2147483647

\* A long long value v (the value of a constant node) is the record of
\* hi = v div 2^31 and lo = v mod 2^31, which keeps every component within
\* the integers of the model checker.
LongLong(hi, lo) == [hi |-> hi, lo |-> lo]
\* a small non-negative value
LL(n) == LongLong(0, n)
\* 1LL << 31
TwoPow31 == LongLong(1, 0)
\* -v
Negate(v) == IF v.lo = 0 THEN LongLong(0 - v.hi, 0)
             ELSE LongLong(0 - v.hi - 1, (MaxInt32 - v.lo) + 1)
\* the value of a long long converted to a 32-bit int (two's complement)
ToInt32(v) == IF v.hi % 2 = 0 THEN v.lo ELSE (v.lo - MaxInt32) - 1

----------------------------------------------------------------------------
(* GetType of every node.                                                  *)

RECURSIVE GetType(_)
\* CAstArrayDesignator::GetType: strips one dimension per supplied index
RECURSIVE StripDims(_, _)
StripDims(t, n) ==
  IF n = 0 THEN t
  ELSE IF ~IsArray(t) THEN NoType
  ELSE StripDims(InnerType(t), n - 1)

\* symbolType->IsPointer() and symbolType->IsArray() are called with no test
\* of symbolType
ArrayDesignatorGetType(n) ==
  LET st0 == n.sym.type
      st  == IF IsPointer(st0) THEN PtrBase(st0) ELSE st0
  IN  IF st0 = NoType \/ st = NoType THEN Segv
      ELSE IF ~IsArray(st) THEN NoType
      ELSE IF Len(n.idx) > NDim(st) THEN NoType
      ELSE StripDims(st, Len(n.idx))

BinaryOpGetType(n) ==
  IF n.oper \in ArithOps THEN IntT
  ELSE IF n.oper \in LogicOps \cup EqOps \cup OrdOps THEN BoolT
  ELSE NoType

UnaryOpGetType(n) ==
  IF n.oper \in {"opNeg", "opPos"} THEN IntT
  ELSE IF n.oper = "opNot" THEN BoolT
  ELSE NoType

\* CAstSpecialOp::GetType; GetOperand()->GetType()->IsPointer() is called
\* with no test of the operand's type
SpecialOpGetType(n) ==
  CASE n.oper = "opAddress" -> IF GetType(n.operand) = Segv THEN Segv
                               ELSE PointerTo(GetType(n.operand))
    [] n.oper = "opDeref"   -> IF GetType(n.operand) \in {Segv, NoType} THEN Segv
                               ELSE IF IsPointer(GetType(n.operand))
                               THEN PtrBase(GetType(n.operand)) ELSE NoType
    [] n.oper = "opCast"    -> n.type
    [] OTHER                -> NoType

GetType(n) ==
  CASE n.kind = "const"      -> n.type
    [] n.kind = "desig"      -> n.sym.type
    [] n.kind = "arraydesig" -> ArrayDesignatorGetType(n)
    [] n.kind = "call"       -> n.sym.type
    [] n.kind = "unary"      -> UnaryOpGetType(n)
    [] n.kind = "binary"     -> BinaryOpGetType(n)
    [] n.kind = "special"    -> SpecialOpGetType(n)
    [] n.kind = "assign"     -> GetType(n.lhs)
    [] n.kind = "return"     -> IF n.expr # NoExpr THEN GetType(n.expr) ELSE NullT
    [] n.kind = "scope"      -> n.type
    [] OTHER                 -> NullT

----------------------------------------------------------------------------
(* TypeCheck.  The out-parameters (CToken *t, string *msg) are threaded    *)
(* through the traversal as the fields t and msg of a record; ok is the    *)
(* returned bool; log lists, in call order, the path of every node whose   *)
(* TypeCheck was entered.  GetToken() of the node at path p is p.          *)

\* the caller's values of *t and *msg before the call
NoTok == <<0>>
NoMsg == ""
TcStart == [ok |-> TRUE, t |-> NoTok, msg |-> NoMsg, log |-> <<>>, segv |-> FALSE]

Enter(st, p) == [st EXCEPT !.log = Append(@, p)]
\* if (t) *t = tok; if (msg) *msg = text; return false;
Fail(st, tok, text) == [st EXCEPT !.ok = FALSE, !.t = tok, !.msg = text]
\* the call dies on a NULL type pointer: it returns nothing, and no caller
\* runs on
Die(st) == [st EXCEPT !.ok = FALSE, !.segv = TRUE]

RECURSIVE TypeCheck(_, _, _)
RECURSIVE TypeCheckChain(_, _, _, _)
RECURSIVE FunctionCallTypeCheckArgs(_, _, _, _)
RECURSIVE ArrayDesignatorTypeCheckIdx(_, _, _, _)

\* while (s) { if (!s->TypeCheck(t, msg)) return false; s = s->GetNext(); }
\* over the chain (or child list) seq, whose i-th element has path p \o <<i>>
TypeCheckChain(seq, p, i, st) ==
  IF i > Len(seq) THEN st
  ELSE LET r == TypeCheck(seq[i], p \o <<i>>, st)
       IN  IF ~r.ok THEN r ELSE TypeCheckChain(seq, p, i + 1, r)

\* a variant of CAstScope::TypeCheck that checks the child scopes before the
\* statement chain
ScopeTypeCheckChildrenFirst(n, p, st) ==
  LET r1 == TypeCheckChain(n.children, p \o <<2>>, 1, Enter(st, p))
  IN  IF ~r1.ok THEN r1
      ELSE TypeCheckChain(n.stats, p \o <<1>>, 1, r1)

\* CAstScope::TypeCheck: the statement chain, then the child scopes
ScopeTypeCheck(n, p, st) ==
  LET s0 == Enter(st, p)
      r1 == TypeCheckChain(n.stats, p \o <<1>>, 1, s0)
  IN  IF ~r1.ok THEN r1
      ELSE TypeCheckChain(n.children, p \o <<2>>, 1, r1)

\* a variant of CAstStatAssign::TypeCheck that reports every mismatch at the
\* left-hand side
StatAssignTypeCheckAtLhs(n, p, st) ==
  LET r1 == TypeCheck(n.lhs, p \o <<1>>, Enter(st, p))
  IN  IF ~r1.ok THEN r1
      ELSE LET r2 == TypeCheck(n.rhs, p \o <<2>>, r1)
           IN  IF ~r2.ok THEN r2
               ELSE IF Segv \in {GetType(n.lhs), GetType(n.rhs)} THEN Die(r2)
               ELSE IF ~Match(GetType(n.lhs), GetType(n.rhs))
                 THEN Fail(r2, p \o <<1>>, "assign type mismatch.")
               ELSE r2

\* CAstStatAssign::TypeCheck
StatAssignTypeCheck(n, p, st) ==
  LET s0 == Enter(st, p)
      lt == GetType(n.lhs)
      rt == GetType(n.rhs)
      r1 == TypeCheck(n.lhs, p \o <<1>>, s0)
  IN  IF ~r1.ok THEN r1
      ELSE LET r2 == TypeCheck(n.rhs, p \o <<2>>, r1)
           IN  IF ~r2.ok THEN r2
               ELSE IF lt = Segv THEN Die(r2)
               ELSE IF lt = NoType \/ ~IsScalar(lt)
                 THEN Fail(r2, p \o <<1>>, "invalid variable type.")
               ELSE IF rt = Segv THEN Die(r2)
               ELSE IF rt = NoType \/ ~IsScalar(rt)
                 THEN Fail(r2, p \o <<2>>, "invalid value type.")
               ELSE IF ~Match(lt, rt)
                 THEN Fail(r2, p \o <<1>>, "assign type mismatch.")
               ELSE r2

\* CAstStatCall::TypeCheck
StatCallTypeCheck(n, p, st) == TypeCheck(n.call, p \o <<1>>, Enter(st, p))

\* a variant of CAstStatReturn::TypeCheck that locates the missing expression
\* of a function at the expression
StatReturnTypeCheckAtExpr(n, p, st) ==
  IF n.scope = NoType THEN Die(Enter(st, p))
  ELSE IF Match(n.scope, NullT)
  THEN IF n.expr # NoExpr
       THEN Fail(Enter(st, p), p \o <<1>>, "procedure should have no return value/expression.")
       ELSE Enter(st, p)
  ELSE IF n.expr = NoExpr
       THEN Fail(Enter(st, p), p \o <<1>>, "function should have return value/expression.")
       ELSE LET r1 == TypeCheck(n.expr, p \o <<1>>, Enter(st, p))
            IN  IF ~r1.ok THEN r1
                ELSE IF GetType(n.expr) = Segv THEN Die(r1)
                ELSE IF ~Match(n.scope, GetType(n.expr))
                  THEN Fail(r1, p \o <<1>>, "return type mismatch.")
                ELSE r1

\* CAstStatReturn::TypeCheck; st->Match(..) is called with no test of the
\* type st of the scope
StatReturnTypeCheck(n, p, st) ==
  LET s0 == Enter(st, p)
      sct == n.scope
      e  == n.expr
  IN  IF sct = NoType THEN Die(s0)
      ELSE IF Match(sct, NullT)
      THEN IF e # NoExpr
           THEN Fail(s0, p \o <<1>>, "procedure should have no return value/expression.")
           ELSE s0
      ELSE IF e = NoExpr
           THEN Fail(s0, p, "function should have return value/expression.")
           ELSE LET r1 == TypeCheck(e, p \o <<1>>, s0)
                IN  IF ~r1.ok THEN r1
                    ELSE IF GetType(e) = Segv THEN Die(r1)
                    ELSE IF ~Match(sct, GetType(e))
                      THEN Fail(r1, p \o <<1>>, "return type mismatch.")
                    ELSE r1

\* a variant of CAstStatIf::TypeCheck that checks the else-body before the
\* if-body
StatIfTypeCheckElseFirst(n, p, st) ==
  LET r1 == TypeCheck(n.cond, p \o <<1>>, Enter(st, p))
  IN  IF ~r1.ok THEN r1
      ELSE IF GetType(n.cond) = Segv THEN Die(r1)
      ELSE IF GetType(n.cond) = NoType \/ ~Match(GetType(n.cond), BoolT)
        THEN Fail(r1, p \o <<1>>, "condition should be bool type")
      ELSE LET r2 == TypeCheckChain(n.elseBody, p \o <<3>>, 1, r1)
           IN  IF ~r2.ok THEN r2
               ELSE TypeCheckChain(n.ifBody, p \o <<2>>, 1, r2)

\* CAstStatIf::TypeCheck
StatIfTypeCheck(n, p, st) ==
  LET s0 == Enter(st, p)
      ct == GetType(n.cond)
      r1 == TypeCheck(n.cond, p \o <<1>>, s0)
  IN  IF ~r1.ok THEN r1
      ELSE IF ct = Segv THEN Die(r1)
      ELSE IF ct = NoType \/ ~Match(ct, BoolT)
        THEN Fail(r1, p \o <<1>>, "condition should be bool type")
      ELSE LET r2 == TypeCheckChain(n.ifBody, p \o <<2>>, 1, r1)
           IN  IF ~r2.ok THEN r2
               ELSE TypeCheckChain(n.elseBody, p \o <<3>>, 1, r2)

\* CAstStatWhile::TypeCheck
StatWhileTypeCheck(n, p, st) ==
  LET s0 == Enter(st, p)
      ct == GetType(n.cond)
      r1 == TypeCheck(n.cond, p \o <<1>>, s0)
  IN  IF ~r1.ok THEN r1
      ELSE IF ct = Segv THEN Die(r1)
      ELSE IF ct = NoType \/ ~Match(ct, BoolT)
        THEN Fail(r1, p \o <<1>>, "condition should be bool type")
      ELSE TypeCheckChain(n.body, p \o <<2>>, 1, r1)

\* CAstBinaryOp::TypeCheck
BinaryOpTypeCheck(n, p, st) ==
  LET s0 == Enter(st, p)
      lt == GetType(n.left)
      rt == GetType(n.right)
      lp == p \o <<1>>
      rp == p \o <<2>>
      r1 == TypeCheck(n.left, lp, s0)
  IN  IF ~r1.ok THEN r1
      ELSE LET r2 == TypeCheck(n.right, rp, r1)
           IN  IF ~r2.ok THEN r2
               ELSE IF lt = Segv \/ rt = Segv THEN Die(r2)
               ELSE IF lt = NoType \/ ~IsScalar(lt)
                 THEN Fail(r2, lp, "the type of left operand is not scalar type.")
               ELSE IF rt = NoType \/ ~IsScalar(rt)
                 THEN Fail(r2, rp, "the type of right operand is not scalar type.")
               ELSE IF IsPointer(lt)
                 THEN Fail(r2, lp, "the type of left operand cannot be a pointer type")
               ELSE IF IsPointer(rt)
                 THEN Fail(r2, rp, "the type of right operand cannot be a pointer type")
               ELSE IF ~Match(lt, rt)
                 THEN Fail(r2, p, "the type of left operand does not match with the type of right operand.")
               ELSE IF n.oper \in ArithOps
                 THEN IF ~Match(lt, IntT)
                      THEN Fail(r2, lp, "the type of operands should be an integer type")
                      ELSE r2
               ELSE IF n.oper \in LogicOps
                 THEN IF ~Match(lt, BoolT)
                      THEN Fail(r2, lp, "the type of operands should be an boolean type")
                      ELSE r2
               ELSE IF n.oper \in EqOps
                 THEN r2
               ELSE IF n.oper \in OrdOps
                 THEN IF Match(lt, BoolT)
                      THEN Fail(r2, lp, "the type of operands cannot be boolean type")
                      ELSE r2
               ELSE Fail(r2, lp, "the operation is not valid.")

\* a variant of CAstUnaryOp::TypeCheck that ignores the failure of any operand
\* of a unary minus
UnaryOpTypeCheckAnyOperand(n, p, st) ==
  LET r1 == TypeCheck(n.operand, p \o <<1>>, Enter(st, p))
      ot == GetType(n.operand)
  IN  IF ~r1.ok
      THEN IF n.oper = "opNeg" THEN [r1 EXCEPT !.ok = TRUE] ELSE r1
      ELSE IF n.oper \in {"opNeg", "opPos", "opNot"} /\ ot = Segv THEN Die(r1)
      ELSE IF n.oper \in {"opNeg", "opPos"}
        THEN IF ot = NoType \/ ~Match(ot, IntT)
             THEN Fail(r1, p \o <<1>>, "the type of operand should be an integer type")
             ELSE r1
      ELSE IF n.oper = "opNot"
        THEN IF ot = NoType \/ ~Match(ot, BoolT)
             THEN Fail(r1, p \o <<1>>, "the type of operand should be a boolean type")
             ELSE r1
      ELSE Fail(r1, p, "the operation is not valid.")

\* CAstUnaryOp::TypeCheck
UnaryOpTypeCheck(n, p, st) ==
  LET s0 == Enter(st, p)
      ot == GetType(n.operand)
      op == p \o <<1>>
      r1 == TypeCheck(n.operand, op, s0)
  IN  IF ~r1.ok
      THEN \* ignore type checking failure if its node is -2147483648
           IF n.operand.kind = "const" /\ n.oper = "opNeg"
           THEN [r1 EXCEPT !.ok = TRUE]
           ELSE r1
      ELSE IF n.oper \in {"opNeg", "opPos", "opNot"} /\ ot = Segv THEN Die(r1)
      ELSE IF n.oper \in {"opNeg", "opPos"}
        THEN IF ot = NoType \/ ~Match(ot, IntT)
             THEN Fail(r1, op, "the type of operand should be an integer type")
             ELSE r1
      ELSE IF n.oper = "opNot"
        THEN IF ot = NoType \/ ~Match(ot, BoolT)
             THEN Fail(r1, op, "the type of operand should be a boolean type")
             ELSE r1
      ELSE Fail(r1, p, "the operation is not valid.")

\* CAstSpecialOp::TypeCheck
SpecialOpTypeCheck(n, p, st) ==
  LET s0 == Enter(st, p)
      ot == GetType(n.operand)
      r1 == TypeCheck(n.operand, p \o <<1>>, s0)
  IN  IF ~r1.ok THEN r1
      ELSE IF n.oper = "opDeref" /\ ot = Segv THEN Die(r1)
      ELSE IF n.oper = "opDeref" /\ (ot = NoType \/ ~IsPointer(ot))
        THEN Fail(r1, p \o <<1>>, "the dereference of non-pointer type is not allowed.")
      ELSE r1

\* the argument loop of CAstFunctionCall::TypeCheck, from argument i (1-based)
FunctionCallTypeCheckArgs(n, p, i, st) ==
  IF i > Len(n.args) THEN st
  ELSE LET expr == n.args[i]
           paramType == n.sym.params[i]
           r1 == TypeCheck(expr, p \o <<i>>, st)
       IN  IF ~r1.ok THEN r1
           ELSE IF GetType(expr) = Segv THEN Die(r1)
           ELSE IF GetType(expr) = NoType \/ paramType = NoType
                   \/ ~Match(paramType, GetType(expr))
             THEN Fail(r1, p \o <<i>>, "the type of parameters does not match with the function/procedure's signature.")
           ELSE FunctionCallTypeCheckArgs(n, p, i + 1, r1)

\* a variant of CAstFunctionCall::TypeCheck that locates an arity mismatch at
\* the first argument
FunctionCallTypeCheckArityAtArg(n, p, st) ==
  IF Len(n.args) # Len(n.sym.params)
  THEN Fail(Enter(st, p), p \o <<1>>, "the number of parameters mismatched.")
  ELSE FunctionCallTypeCheckArgs(n, p, 1, Enter(st, p))

\* CAstFunctionCall::TypeCheck
FunctionCallTypeCheck(n, p, st) ==
  LET s0 == Enter(st, p)
  IN  IF Len(n.args) # Len(n.sym.params)
      THEN Fail(s0, p, "the number of parameters mismatched.")
      ELSE FunctionCallTypeCheckArgs(n, p, 1, s0)

\* CAstDesignator::TypeCheck
DesignatorTypeCheck(n, p, st) ==
  LET s0 == Enter(st, p)
  IN  IF GetType(n) = NoType \/ IsNull(GetType(n))
      THEN Fail(s0, p, "invalid designator type.")
      ELSE s0

\* the index loop of CAstArrayDesignator::TypeCheck, from index i (1-based)
ArrayDesignatorTypeCheckIdx(n, p, i, st) ==
  IF i > Len(n.idx) THEN st
  ELSE LET expr == n.idx[i]
           r1 == TypeCheck(expr, p \o <<i>>, st)
       IN  IF ~r1.ok THEN r1
           ELSE IF GetType(expr) = Segv THEN Die(r1)
           ELSE IF GetType(expr) = NoType \/ ~Match(GetType(expr), IntT)
             THEN Fail(r1, p \o <<i>>, "the element in array should be accessed by integer index.")
           ELSE ArrayDesignatorTypeCheckIdx(n, p, i + 1, r1)

\* CAstArrayDesignator::TypeCheck
ArrayDesignatorTypeCheck(n, p, st) ==
  ArrayDesignatorTypeCheckIdx(n, p, 1, Enter(st, p))

\* CAstConstant::TypeCheck
ConstantTypeCheck(n, p, st) ==
  LET s0 == Enter(st, p)
  IN  IF n.type = NoType \/ IsNull(n.type)
      THEN Fail(s0, p, "invalid constant type.")
      ELSE IF n.value = TwoPow31
        THEN Fail(s0, p, "invalid number.")
      ELSE s0

\* virtual dispatch of TypeCheck on the node's class
TypeCheck(n, p, st) ==
  CASE n.kind = "scope"      -> ScopeTypeCheck(n, p, st)
    [] n.kind = "assign"     -> StatAssignTypeCheck(n, p, st)
    [] n.kind = "statcall"   -> StatCallTypeCheck(n, p, st)
    [] n.kind = "return"     -> StatReturnTypeCheck(n, p, st)
    [] n.kind = "if"         -> StatIfTypeCheck(n, p, st)
    [] n.kind = "while"      -> StatWhileTypeCheck(n, p, st)
    [] n.kind = "binary"     -> BinaryOpTypeCheck(n, p, st)
    [] n.kind = "unary"      -> UnaryOpTypeCheck(n, p, st)
    [] n.kind = "special"    -> SpecialOpTypeCheck(n, p, st)
    [] n.kind = "call"       -> FunctionCallTypeCheck(n, p, st)
    [] n.kind = "desig"      -> DesignatorTypeCheck(n, p, st)
    [] n.kind = "arraydesig" -> ArrayDesignatorTypeCheck(n, p, st)
    [] n.kind = "const"      -> ConstantTypeCheck(n, p, st)

----------------------------------------------------------------------------
(* Three-address code: addresses, instructions and the code block          *)
(* (CTacAddr, CTacInstr, CCodeBlock: collaborators of ast.cpp).            *)

NoAddr == [k |-> "none", n |-> 0, s |-> "", ty |-> NoType]

\* new CTacConst(v), v a 32-bit int
CTacConst(v)   == [k |-> "const", n |-> v, s |-> "", ty |-> NoType]
CTacName(sym)  == [k |-> "name", n |-> 0, s |-> sym.name, ty |-> NoType]
\* a reference through temporary number t to the symbol sym
CTacReference(t, sym) == [k |-> "ref", n |-> t.n, s |-> sym.name, ty |-> NoType]

Instr(op, dst, src1, src2) == [op |-> op, dst |-> dst, src1 |-> src1, src2 |-> src2]

\* segv: the lowering has died (a call through a NULL pointer, a failed
\* assert); nothing runs on
EmptyBlock == [instrs |-> <<>>, nlabel |-> 0, ntemp |-> 0, segv |-> FALSE]
\* the lowering dies: the block stays as it is from here on
DieAt(c) == [c EXCEPT !.segv = TRUE]
\* the lowering died, no address is returned
Died(c) == [cb |-> DieAt(c), addr |-> NoAddr]

\* cb->CreateLabel(hint): the label created, and the block afterwards
NewLabel(c, hint) == [k |-> "label", n |-> c.nlabel + 1, s |-> hint, ty |-> NoType]
CreateLabel(c)    == IF c.segv THEN c ELSE [c EXCEPT !.nlabel = @ + 1]
\* cb->CreateTemp(type)
NewTemp(c, type)  == [k |-> "temp", n |-> c.ntemp + 1, s |-> "", ty |-> type]
CreateTemp(c)     == IF c.segv THEN c ELSE [c EXCEPT !.ntemp = @ + 1]
\* cb->AddInstr(instr)
AddInstr(c, i)    == IF c.segv THEN c ELSE [c EXCEPT !.instrs = Append(@, i)]
\* cb->AddInstr(label): the label instruction that defines the label
LabelInstr(l)     == Instr("opLabel", l, NoAddr, NoAddr)
Goto(l)           == Instr("opGoto", l, NoAddr, NoAddr)

\* F(r): the call that yields r is complete, and r a value, before the code
\* F that follows the call runs
Bind(r, F(_)) == CHOOSE y \in {F(v) : v \in {r}} : TRUE

\* t = cb->CreateTemp(type); cb->AddInstr(new CTacInstr(op, t, src1, src2))
EmitTemp(c, type, op, src1, src2) ==
  LET t == NewTemp(c, type)
  IN  [cb |-> AddInstr(CreateTemp(c), Instr(op, t, src1, src2)), addr |-> t]

\* the symbols the array lowering looks up by name in the symbol table
DIM_SYM  == ProcSym("DIM", IntT, <<PointerTo(NullT), IntT>>)
DOFS_SYM == ProcSym("DOFS", IntT, <<PointerTo(NullT)>>)

----------------------------------------------------------------------------
(* ToTac.  Value form: ToTac(n, c) is [cb, addr], the block after the call *)
(* and the returned address.  Condition form: ToTacCond(n, c, ltrue,       *)
(* lfalse) and statement form ToTacStat(n, c, next) are the block after    *)
(* the call.                                                               *)

RECURSIVE Lower(_, _, _, _, _)
RECURSIVE ToTacChain(_, _, _)
RECURSIVE FunctionCallParams(_, _, _)
RECURSIVE ArrayDesignatorLoop(_, _, _, _, _, _)

\* expression->ToTac(cb)
ToTac(n, c) == Lower("value", n, c, NoAddr, NoAddr)
\* expression->ToTac(cb, ltrue, lfalse)
ToTacCond(n, c, ltrue, lfalse) == Lower("cond", n, c, ltrue, lfalse).cb
\* statement->ToTac(cb, next)
ToTacStat(n, c, next) == Lower("stat", n, c, next, NoAddr).cb

\* while (s) { next = cb->CreateLabel(); s->ToTac(cb, next);
\*             cb->AddInstr(next); s = s->GetNext(); }   from statement i
ToTacChain(seq, i, c) ==
  IF i > Len(seq) THEN c
  ELSE Bind(NewLabel(c, ""), LAMBDA next:
         Bind(ToTacStat(seq[i], CreateLabel(c), next), LAMBDA c1:
           ToTacChain(seq, i + 1, AddInstr(c1, LabelInstr(next)))))

\* CAstScope::ToTac up to the call of CleanupControlFlow
ScopeToTacEmit(n, c) == ToTacChain(n.stats, 1, c)

\* a variant of CAstStatAssign::ToTac that lowers the left-hand side first
StatAssignToTacLhsFirst(n, c, next) ==
  LET dst == ToTac(n.lhs, c)
      src == ToTac(n.rhs, dst.cb)
  IN  AddInstr(AddInstr(src.cb, Instr("opAssign", dst.addr, src.addr, NoAddr)),
               Goto(next))

\* CAstStatAssign::ToTac
StatAssignToTac(n, c, next) ==
  LET src == ToTac(n.rhs, c)
      dst == ToTac(n.lhs, src.cb)
  IN  AddInstr(AddInstr(dst.cb, Instr("opAssign", dst.addr, src.addr, NoAddr)),
               Goto(next))

RECURSIVE ParamsUp(_, _, _)
\* the parameter loop run from the first argument to the last
ParamsUp(args, i, c) ==
  IF i > Len(args) THEN c
  ELSE LET a == ToTac(args[i], c)
       IN  ParamsUp(args, i + 1,
             AddInstr(a.cb, Instr("opParam", CTacConst(i - 1), a.addr, NoAddr)))
\* a variant of the parameter loop that pushes the first argument first
FunctionCallParamsForward(args, i, c) == ParamsUp(args, 1, c)

\* for (i = n - 1; i >= 0; i--) { argTac = GetArg(i)->ToTac(cb);
\*   cb->AddInstr(new CTacInstr(opParam, new CTacConst(i), argTac, NULL)); }
\* from the 1-based argument i down to the first
FunctionCallParams(args, i, c) ==
  IF i < 1 THEN c
  ELSE LET a == ToTac(args[i], c)
       IN  FunctionCallParams(args, i - 1,
             AddInstr(a.cb, Instr("opParam", CTacConst(i - 1), a.addr, NoAddr)))

\* CAstStatCall::ToTac
StatCallToTac(n, c, next) ==
  LET call == n.call
      c1  == FunctionCallParams(call.args, Len(call.args), c)
      hasTmp == GetType(call) # NullT
      tmp == IF hasTmp THEN NewTemp(c1, GetType(call)) ELSE NoAddr
      c2  == IF hasTmp THEN CreateTemp(c1) ELSE c1
  IN  AddInstr(AddInstr(c2, Instr("opCall", tmp, CTacName(call.sym), NoAddr)),
               Goto(next))

\* a variant of CAstStatReturn::ToTac that ends with the return instruction
StatReturnToTacNoGoto(n, c, next) ==
  LET r == IF n.expr # NoExpr THEN ToTac(n.expr, c) ELSE [cb |-> c, addr |-> NoAddr]
  IN  AddInstr(r.cb, Instr("opReturn", NoAddr, r.addr, NoAddr))

\* CAstStatReturn::ToTac
StatReturnToTac(n, c, next) ==
  LET r == IF n.expr # NoExpr THEN ToTac(n.expr, c) ELSE [cb |-> c, addr |-> NoAddr]
  IN  AddInstr(AddInstr(r.cb, Instr("opReturn", NoAddr, r.addr, NoAddr)),
               Goto(next))

\* a variant of CAstStatIf::ToTac that leaves out the `goto next` between the
\* if-body and the label if_false
StatIfToTacNoGoto(n, c, next) ==
  LET nextTrue  == NewLabel(c, "if_true")
      nextFalse == NewLabel(CreateLabel(c), "if_false")
      c3 == ToTacCond(n.cond, CreateLabel(CreateLabel(c)), nextTrue, nextFalse)
      c4 == ToTacChain(n.ifBody, 1, AddInstr(c3, LabelInstr(nextTrue)))
      c6 == ToTacChain(n.elseBody, 1, AddInstr(c4, LabelInstr(nextFalse)))
  IN  AddInstr(c6, Goto(next))

\* CAstStatIf::ToTac
StatIfToTac(n, c, next) ==
  LET nextTrue  == NewLabel(c, "if_true")
      c1 == CreateLabel(c)
      nextFalse == NewLabel(c1, "if_false")
      c2 == CreateLabel(c1)
      c3 == ToTacCond(n.cond, c2, nextTrue, nextFalse)
      c4 == ToTacChain(n.ifBody, 1, AddInstr(c3, LabelInstr(nextTrue)))
      c5 == AddInstr(AddInstr(c4, Goto(next)), LabelInstr(nextFalse))
      c6 == ToTacChain(n.elseBody, 1, c5)
  IN  AddInstr(c6, Goto(next))

\* a variant of CAstStatWhile::ToTac that leaves out cb->AddInstr(body)
StatWhileToTacNoBodyLabel(n, c, next) ==
  LET cond == NewLabel(c, "while_cond")
      body == NewLabel(CreateLabel(c), "while_body")
      c3 == ToTacCond(n.cond, AddInstr(CreateLabel(CreateLabel(c)), LabelInstr(cond)),
                      body, next)
  IN  AddInstr(AddInstr(ToTacChain(n.body, 1, c3), Goto(cond)), Goto(next))

\* a variant of CAstStatWhile::ToTac that leaves out the `goto cond` behind
\* the body
StatWhileToTacNoLoop(n, c, next) ==
  LET cond == NewLabel(c, "while_cond")
      body == NewLabel(CreateLabel(c), "while_body")
      c3 == ToTacCond(n.cond, AddInstr(CreateLabel(CreateLabel(c)), LabelInstr(cond)),
                      body, next)
      c4 == ToTacChain(n.body, 1, AddInstr(c3, LabelInstr(body)))
  IN  AddInstr(c4, Goto(next))

\* CAstStatWhile::ToTac
StatWhileToTac(n, c, next) ==
  LET cond == NewLabel(c, "while_cond")
      c1 == CreateLabel(c)
      body == NewLabel(c1, "while_body")
      c2 == CreateLabel(c1)
      c3 == ToTacCond(n.cond, AddInstr(c2, LabelInstr(cond)), body, next)
      c4 == ToTacChain(n.body, 1, AddInstr(c3, LabelInstr(body)))
  IN  AddInstr(AddInstr(c4, Goto(cond)), Goto(next))

\* the tail shared by the value forms of boolean operations:
\*   ToTac(cb, ltrue, lfalse); val = CreateTemp(bool);
\*   ltrue: val := 1; goto lend; lfalse: val := 0; lend:
BoolValueToTac(n, c) ==
  LET ltrue  == NewLabel(c, "")
      c1 == CreateLabel(c)
      lfalse == NewLabel(c1, "")
      c2 == CreateLabel(c1)
      lend   == NewLabel(c2, "")
      c3 == CreateLabel(c2)
      c4 == ToTacCond(n, c3, ltrue, lfalse)
      val == NewTemp(c4, BoolT)
      c5 == CreateTemp(c4)
      c6 == AddInstr(c5, LabelInstr(ltrue))
      c7 == AddInstr(c6, Instr("opAssign", val, CTacConst(1), NoAddr))
      c8 == AddInstr(c7, Goto(lend))
      c9 == AddInstr(c8, LabelInstr(lfalse))
      c10 == AddInstr(c9, Instr("opAssign", val, CTacConst(0), NoAddr))
  IN  [cb |-> AddInstr(c10, LabelInstr(lend)), addr |-> val]

\* a variant of CAstBinaryOp::ToTac(cb) that lowers `and` and `or` like the
\* arithmetic operations, as one instruction on the values of the operands
BinaryOpToTacLogicAsArith(n, c) ==
  IF n.oper \in ArithOps \cup LogicOps
  THEN LET l == ToTac(n.left, c)
           r == ToTac(n.right, l.cb)
       IN  EmitTemp(r.cb, IF n.oper \in ArithOps THEN IntT ELSE BoolT,
                    n.oper, l.addr, r.addr)
  ELSE BoolValueToTac(n, c)

\* CAstBinaryOp::ToTac(cb)
BinaryOpToTac(n, c) ==
  IF n.oper \in ArithOps
  THEN LET l == ToTac(n.left, c)
           r == ToTac(n.right, l.cb)
           val == NewTemp(r.cb, IntT)
       IN  [cb |-> AddInstr(CreateTemp(r.cb), Instr(n.oper, val, l.addr, r.addr)),
            addr |-> val]
  ELSE BoolValueToTac(n, c)

\* new CTacInstr(oper, ltrue, left->ToTac(cb), right->ToTac(cb)): the two
\* operand calls are arguments of one call, evaluated in the build's order
RelOpOperands(n, c) ==
  IF order = "LeftFirst"
  THEN LET l == ToTac(n.left, c)
           r == ToTac(n.right, l.cb)
       IN  [cb |-> r.cb, left |-> l.addr, right |-> r.addr]
  ELSE LET r == ToTac(n.right, c)
           l == ToTac(n.left, r.cb)
       IN  [cb |-> l.cb, left |-> l.addr, right |-> r.addr]

\* CAstBinaryOp::ToTac(cb, ltrue, lfalse)
BinaryOpToTacCond(n, c, ltrue, lfalse) ==
  LET nextCond == NewLabel(c, "")
      c1 == CreateLabel(c)
      code ==
        IF IsRelOp(n.oper)
        THEN LET o == RelOpOperands(n, c1)
             IN  AddInstr(AddInstr(o.cb, Instr(n.oper, ltrue, o.left, o.right)),
                          Goto(lfalse))
        ELSE IF n.oper = "opAnd"
        THEN LET c2 == ToTacCond(n.left, c1, nextCond, lfalse)
             IN  ToTacCond(n.right, AddInstr(c2, LabelInstr(nextCond)), ltrue, lfalse)
        ELSE LET c2 == ToTacCond(n.left, c1, ltrue, nextCond)
             IN  ToTacCond(n.right, AddInstr(c2, LabelInstr(nextCond)), ltrue, lfalse)
  IN  \* return NULL
      [cb |-> code, addr |-> NoAddr]

\* a variant of CAstUnaryOp::ToTac(cb) that does not fold the sign into a
\* constant operand
UnaryOpToTacNoFold(n, c) ==
  IF n.oper \in {"opPos", "opNeg"}
  THEN LET o == ToTac(n.operand, c)
       IN  EmitTemp(o.cb, IntT, n.oper, o.addr, NoAddr)
  ELSE BoolValueToTac(n, c)

\* CAstUnaryOp::ToTac(cb)
UnaryOpToTac(n, c) ==
  IF n.oper \in {"opPos", "opNeg"}
  THEN IF n.operand.kind # "const"
       THEN LET o == ToTac(n.operand, c)
                retval == NewTemp(o.cb, IntT)
            IN  [cb |-> AddInstr(CreateTemp(o.cb), Instr(n.oper, retval, o.addr, NoAddr)),
                 addr |-> retval]
       ELSE LET val == IF n.oper = "opNeg" THEN Negate(n.operand.value)
                       ELSE n.operand.value
            IN  [cb |-> c, addr |-> CTacConst(ToInt32(val))]
  ELSE BoolValueToTac(n, c)

\* if (value = 1) goto ltrue; goto lfalse
ValueToTacCond(v, ltrue, lfalse) ==
  AddInstr(AddInstr(v.cb, Instr("opEqual", ltrue, v.addr, CTacConst(1))),
           Goto(lfalse))
\* a block, returned with the address NULL
ReturnNull(c) == [cb |-> c, addr |-> NoAddr]

\* a variant of CAstUnaryOp::ToTac(cb, ltrue, lfalse) that computes the value
\* of the operand and tests it
UnaryOpToTacCondByValue(n, c, ltrue, lfalse) ==
  IF n.oper # "opNot" THEN Died(c)
  ELSE ReturnNull(ValueToTacCond(BoolValueToTac(n.operand, c), lfalse, ltrue))

\* a variant of CAstUnaryOp::ToTac(cb, ltrue, lfalse) that passes the targets
\* on as they are
UnaryOpToTacCondNoSwap(n, c, ltrue, lfalse) ==
  IF n.oper # "opNot" THEN Died(c)
  ELSE ReturnNull(ToTacCond(n.operand, c, ltrue, lfalse))

\* CAstUnaryOp::ToTac(cb, ltrue, lfalse): assert(oper == opNot) ends the
\* process before anything is emitted; otherwise the operand is lowered with
\* the two targets swapped
UnaryOpToTacCond(n, c, ltrue, lfalse) ==
  IF n.oper # "opNot" THEN Died(c)
  ELSE ReturnNull(ToTacCond(n.operand, c, lfalse, ltrue))

\* CAstSpecialOp::ToTac(cb)
SpecialOpToTac(n, c) ==
  LET src == ToTac(n.operand, c)
      res == NewTemp(src.cb, PointerTo(GetType(n.operand)))
  IN  IF GetType(n.operand) = Segv THEN Died(src.cb)
      ELSE [cb |-> AddInstr(CreateTemp(src.cb),
                            Instr("opAddress", res, src.addr, NoAddr)),
            addr |-> res]

\* CAstExpression::ToTac(cb, ltrue, lfalse): the inherited condition form of
\* the classes that do not override it (CAstSpecialOp)
ExpressionToTacCond(n, c, ltrue, lfalse) == ReturnNull(c)

\* CAstFunctionCall::ToTac(cb)
FunctionCallToTac(n, c) ==
  LET c1 == FunctionCallParams(n.args, Len(n.args), c)
      retval == NewTemp(c1, GetType(n))
  IN  [cb |-> AddInstr(CreateTemp(c1), Instr("opCall", retval, CTacName(n.sym), NoAddr)),
       addr |-> retval]

\* CAstFunctionCall::ToTac(cb, ltrue, lfalse)
FunctionCallToTacCond(n, c, ltrue, lfalse) ==
  ReturnNull(ValueToTacCond(FunctionCallToTac(n, c), ltrue, lfalse))

\* CAstDesignator::ToTac(cb)
DesignatorToTac(n, c) == [cb |-> c, addr |-> CTacName(n.sym)]

\* CAstDesignator::ToTac(cb, ltrue, lfalse)
DesignatorToTacCond(n, c, ltrue, lfalse) ==
  ReturnNull(ValueToTacCond(DesignatorToTac(n, c), ltrue, lfalse))

\* the expression of dimension i (0-based) of the dimension loop: the index
\* expression, or the constant 0 when the designator has fewer indices
ArrayDesignatorIdx(n, i, c) ==
  IF i < Len(n.idx) THEN ToTac(n.idx[i + 1], c)
  ELSE [cb |-> c, addr |-> CTacConst(0)]

\* the dimension loop of CAstArrayDesignator::ToTac for the 0-based dimension
\* i of nd; idx is the running index address (NoAddr: none yet)
ArrayDesignatorLoop(n, idExpr, nd, i, idx, c) ==
  IF i >= nd THEN [cb |-> c, addr |-> idx]
  ELSE Bind(IF idx = NoAddr
            THEN ToTac(n.idx[i + 1], c)
            ELSE Bind(ArrayDesignatorIdx(n, i, c), LAMBDA prev:
                   EmitTemp(prev.cb, IntT, "opAdd", idx, prev.addr)),
       LAMBDA cur:
         IF i = nd - 1 THEN cur
         ELSE Bind(FunctionCallToTac(
                     FunctionCall(DIM_SYM, <<idExpr, Constant(IntT, LL(i + 2))>>),
                     cur.cb),
              LAMBDA dim:
                Bind(EmitTemp(dim.cb, IntT, "opMul", cur.addr, dim.addr),
                LAMBDA next:
                  ArrayDesignatorLoop(n, idExpr, nd, i + 1, next.addr, next.cb))))

\* dataType of CAstArrayDesignator::ToTac: the dynamic_cast to CArrayType of
\* the symbol's type, or of the base type when the symbol is a pointer; NULL
\* when that type is not an array.  GetDataType()->IsPointer() is called
\* with no test of the symbol's type.
ArrayTypeOf(n) ==
  LET ty == IF IsPointer(n.sym.type) THEN PtrBase(n.sym.type) ELSE n.sym.type
  IN  IF n.sym.type = NoType THEN Segv
      ELSE IF IsArray(ty) THEN ty ELSE NoType

\* a variant of CAstArrayDesignator::ToTac(cb) that leaves out the
\* multiplication by the size of an element
ArrayDesignatorToTacNoSize(n, c) ==
  LET isPtr == IsPointer(n.sym.type)
      idExpr == IF isPtr THEN Designator(n.sym)
                ELSE SpecialOp("opAddress", Designator(n.sym), NoType)
      dataType == ArrayTypeOf(n)
  IN  IF dataType = Segv THEN Died(c) ELSE
      Bind(IF isPtr THEN [cb |-> c, addr |-> CTacName(n.sym)]
           ELSE EmitTemp(c, PointerTo(n.sym.type), "opAddress",
                         CTacName(n.sym), NoAddr),
      LAMBDA id:
        IF dataType = NoType THEN Died(id.cb) ELSE
        Bind(ArrayDesignatorLoop(n, idExpr, NDim(dataType), 0, NoAddr, id.cb),
        LAMBDA lp:
          Bind(FunctionCallToTac(FunctionCall(DOFS_SYM, <<idExpr>>), lp.cb),
          LAMBDA ofs:
            Bind(EmitTemp(ofs.cb, IntT, "opAdd", lp.addr, ofs.addr),
            LAMBDA t2:
              Bind(EmitTemp(t2.cb, IntT, "opAdd", id.addr, t2.addr),
              LAMBDA t3:
                [cb |-> t3.cb, addr |-> CTacReference(t3.addr, n.sym)])))))

\* CAstArrayDesignator::ToTac(cb); dataType->GetBaseType() is called with no
\* test of dataType
ArrayDesignatorToTac(n, c) ==
  LET isPtr == IsPointer(n.sym.type)
      idExpr == IF isPtr THEN Designator(n.sym)
                ELSE SpecialOp("opAddress", Designator(n.sym), NoType)
      dataType == ArrayTypeOf(n)
      dataSize == SizeOf(ElemType(dataType))
  IN  IF dataType = Segv THEN Died(c) ELSE
      Bind(IF isPtr THEN [cb |-> c, addr |-> CTacName(n.sym)]
           ELSE EmitTemp(c, PointerTo(n.sym.type), "opAddress",
                         CTacName(n.sym), NoAddr),
      LAMBDA id:
        IF dataType = NoType THEN Died(id.cb) ELSE
        Bind(ArrayDesignatorLoop(n, idExpr, NDim(dataType), 0, NoAddr, id.cb),
        LAMBDA lp:
          Bind(EmitTemp(lp.cb, IntT, "opMul", lp.addr, CTacConst(dataSize)),
          LAMBDA t1:
            Bind(FunctionCallToTac(FunctionCall(DOFS_SYM, <<idExpr>>), t1.cb),
            LAMBDA ofs:
              Bind(EmitTemp(ofs.cb, IntT, "opAdd", t1.addr, ofs.addr),
              LAMBDA t2:
                Bind(EmitTemp(t2.cb, IntT, "opAdd", id.addr, t2.addr),
                LAMBDA t3:
                  [cb |-> t3.cb, addr |-> CTacReference(t3.addr, n.sym)]))))))

\* CAstArrayDesignator::ToTac(cb, ltrue, lfalse): returns the address of its
\* value form
ArrayDesignatorToTacCond(n, c, ltrue, lfalse) ==
  Bind(ArrayDesignatorToTac(n, c), LAMBDA r:
    [cb |-> ValueToTacCond(r, ltrue, lfalse), addr |-> r.addr])

\* CAstConstant::ToTac(cb)
ConstantToTac(n, c) == [cb |-> c, addr |-> CTacConst(ToInt32(n.value))]

\* CAstConstant::ToTac(cb, ltrue, lfalse): returns new CTacConst(GetValue())
ConstantToTacCond(n, c, ltrue, lfalse) ==
  [cb |-> IF n.value # LL(0) THEN AddInstr(c, Goto(ltrue))
          ELSE AddInstr(c, Goto(lfalse)),
   addr |-> CTacConst(ToInt32(n.value))]

\* virtual dispatch of the value form
ValueForm(n, c) ==
  CASE n.kind = "binary"     -> BinaryOpToTac(n, c)
    [] n.kind = "unary"      -> UnaryOpToTac(n, c)
    [] n.kind = "special"    -> SpecialOpToTac(n, c)
    [] n.kind = "call"       -> FunctionCallToTac(n, c)
    [] n.kind = "desig"      -> DesignatorToTac(n, c)
    [] n.kind = "arraydesig" -> ArrayDesignatorToTac(n, c)
    [] n.kind = "const"      -> ConstantToTac(n, c)

\* virtual dispatch of the condition form
CondForm(n, c, ltrue, lfalse) ==
  CASE n.kind = "binary"     -> BinaryOpToTacCond(n, c, ltrue, lfalse)
    [] n.kind = "unary"      -> UnaryOpToTacCond(n, c, ltrue, lfalse)
    [] n.kind = "special"    -> ExpressionToTacCond(n, c, ltrue, lfalse)
    [] n.kind = "call"       -> FunctionCallToTacCond(n, c, ltrue, lfalse)
    [] n.kind = "desig"      -> DesignatorToTacCond(n, c, ltrue, lfalse)
    [] n.kind = "arraydesig" -> ArrayDesignatorToTacCond(n, c, ltrue, lfalse)
    [] n.kind = "const"      -> ConstantToTacCond(n, c, ltrue, lfalse)

\* virtual dispatch of the statement form
StatForm(n, c, next) ==
  CASE n.kind = "assign"   -> StatAssignToTac(n, c, next)
    [] n.kind = "statcall" -> StatCallToTac(n, c, next)
    [] n.kind = "return"   -> StatReturnToTac(n, c, next)
    [] n.kind = "if"       -> StatIfToTac(n, c, next)
    [] n.kind = "while"    -> StatWhileToTac(n, c, next)

\* the three overloads of ToTac
Lower(f, n, c, l1, l2) ==
  CASE f = "value" -> ValueForm(n, c)
    [] f = "cond"  -> CondForm(n, c, l1, l2)
    [] f = "stat"  -> [cb |-> StatForm(n, c, l1), addr |-> NoAddr]

----------------------------------------------------------------------------
(* Control flow of an instruction stream.                                  *)

\* a conditional relational jump: if src1 <op> src2 goto dst
IsCondJump(i) == IsRelOp(i.op) /\ i.dst.k = "label"
IsGoto(i)     == i.op = "opGoto"
IsLabel(i)    == i.op = "opLabel"

\* the positions of code at which label l is defined
LabelDefs(code, l) == {j \in 1..Len(code) : IsLabel(code[j]) /\ code[j].dst = l}
\* the labels that gotos and conditional jumps of code name
JumpTargets(code) ==
  {code[j].dst : j \in {x \in 1..Len(code) : IsGoto(code[x]) \/ IsCondJump(code[x])}}

\* position Len(code) + 1 stands for control falling off the end of code;
\* a jump to a label that code does not define leaves code
FallOff(code) == Len(code) + 1

\* the positions control can reach in one step from position j of code
Succ(code, j) ==
  IF j > Len(code) THEN {}
  ELSE LET i == code[j]
       IN  IF IsGoto(i) THEN LabelDefs(code, i.dst)
           ELSE IF IsCondJump(i) THEN LabelDefs(code, i.dst) \cup {j + 1}
           ELSE {j + 1}

RECURSIVE ReachFrom(_, _, _)
\* the positions reachable from the positions in todo (seen: those already known)
ReachFrom(code, todo, seen) ==
  IF todo = {} THEN seen
  ELSE LET nxt == UNION {Succ(code, j) : j \in todo}
           s2  == seen \cup todo
       IN  ReachFrom(code, nxt \ s2, s2)

\* the positions reachable when control enters code at its first instruction
Reachable(code) == ReachFrom(code, {1}, {})

\* the labels by which control entering code at its first instruction can
\* leave it: the targets of reachable jumps that code does not define
ExitLabels(code) ==
  {code[j].dst : j \in {x \in Reachable(code) \cap (1..Len(code)) :
                          /\ IsGoto(code[x]) \/ IsCondJump(code[x])
                          /\ LabelDefs(code, code[x].dst) = {}}}

\* control entering code at its first instruction can fall off its end
FallsThrough(code) == FallOff(code) \in Reachable(code)

----------------------------------------------------------------------------
(* CCodeBlock::CleanupControlFlow, a collaborator of ast.cpp: the rewrite   *)
(* of the instruction stream to a fixed point of (a) deleting a goto that   *)
(* is immediately followed by the definition of its target, (b) deleting a  *)
(* label that no jump refers to, (c) redirecting a goto whose target is     *)
(* immediately followed by another goto to the end of that chain.           *)
(* Its code is not in ast.cpp: the pass is modelled from its description,  *)
(* and the properties of the lowering are stated on the stream before the   *)
(* pass (raw).                                                              *)

RemoveAt(code, j) == SubSeq(code, 1, j - 1) \o SubSeq(code, j + 1, Len(code))

\* (a) the gotos immediately followed by the definition of their target
RedundantGotos(code) ==
  {j \in 1..(Len(code) - 1) :
     IsGoto(code[j]) /\ IsLabel(code[j + 1]) /\ code[j + 1].dst = code[j].dst}

\* (b) the label definitions that no jump refers to
UnreferencedLabels(code) ==
  {j \in 1..Len(code) : IsLabel(code[j]) /\ code[j].dst \notin JumpTargets(code)}

\* the targets of the gotos that immediately follow a definition of label l
GotoAfter(code, l) ==
  {code[d + 1].dst : d \in {x \in LabelDefs(code, l) :
                              x < Len(code) /\ IsGoto(code[x + 1])}}

RECURSIVE ChainEnd(_, _, _)
\* the label at the end of the chain of gotos that starts at label l, NoAddr
\* when the chain runs in a circle (seen: the labels of the chain so far)
ChainEnd(code, l, seen) ==
  IF GotoAfter(code, l) = {} THEN l
  ELSE LET m == CHOOSE x \in GotoAfter(code, l) : TRUE
       IN  IF m \in seen \cup {l} THEN NoAddr
           ELSE ChainEnd(code, m, seen \cup {l})

\* (c) the gotos whose target starts a chain of gotos
ChainedGotos(code) ==
  {j \in 1..Len(code) :
     IsGoto(code[j]) /\ ChainEnd(code, code[j].dst, {}) \notin {NoAddr, code[j].dst}}

Min(S) == CHOOSE x \in S : \A y \in S : x <= y

RECURSIVE Cleanup(_)
\* the fixed point of the three rewrites
Cleanup(code) ==
  IF RedundantGotos(code) # {}
  THEN Cleanup(RemoveAt(code, Min(RedundantGotos(code))))
  ELSE IF UnreferencedLabels(code) # {}
  THEN Cleanup(RemoveAt(code, Min(UnreferencedLabels(code))))
  ELSE IF ChainedGotos(code) # {}
  THEN Cleanup([code EXCEPT ![Min(ChainedGotos(code))] =
                  Goto(ChainEnd(code, code[Min(ChainedGotos(code))].dst, {}))])
  ELSE code

\* cb->CleanupControlFlow()
CleanupControlFlow(c) == IF c.segv THEN c ELSE [c EXCEPT !.instrs = Cleanup(@)]

\* CAstScope::ToTac
ScopeToTac(n, c) == CleanupControlFlow(ScopeToTacEmit(n, c))

----------------------------------------------------------------------------
(* The symbols of the generated programs.                                  *)

SymI  == VarSym("i", IntT)
SymB  == VarSym("b", BoolT)
SymC  == VarSym("c", CharT)
SymPB == VarSym("pb", PointerTo(BoolT))
SymA  == VarSym("a", ArrayOf(2, ArrayOf(3, IntT)))
SymAB == VarSym("ab", ArrayOf(2, BoolT))
SymN  == VarSym("n", NullT)
\* a symbol without a data type
SymX  == VarSym("x", NoType)
\* functions and procedures
SymFI == ProcSym("fi", IntT, <<>>)
SymFB == ProcSym("fb", BoolT, <<>>)
SymGB == ProcSym("gb", BoolT, <<BoolT>>)
SymP  == ProcSym("p", NullT, <<>>)

One      == Constant(IntT, LL(1))
True     == Constant(BoolT, LL(1))
False    == Constant(BoolT, LL(0))
\* the literal 2147483648 and its negation
BareMin  == Constant(IntT, TwoPow31)
NegMin   == UnaryOp("opNeg", BareMin)

\* boolean special operations
CastB    == SpecialOp("opCast", Designator(SymI), BoolT)
DerefB   == SpecialOp("opDeref", Designator(SymPB), NoType)

----------------------------------------------------------------------------
(* Generated expressions: the well-typed expressions with at most MaxOps   *)
(* operator nodes over a few operands, and some further expressions.       *)

IntLeaves  == {Designator(SymI), One}
BoolLeaves == {Designator(SymB), False, FunctionCall(SymFB, <<>>)}

RECURSIVE IntE(_)
RECURSIVE BoolE(_)
\* integer expressions with exactly k operator nodes
IntE(k) ==
  IF k = 0 THEN IntLeaves
  ELSE {UnaryOp("opNeg", e) : e \in IntE(k - 1)}
       \cup UNION {{BinaryOp("opAdd", l, r) : l \in IntE(j), r \in IntE(k - 1 - j)}
                   : j \in 0..(k - 1)}

\* boolean expressions with exactly k operator nodes
BoolE(k) ==
  IF k = 0 THEN BoolLeaves
  ELSE {UnaryOp("opNot", e) : e \in BoolE(k - 1)}
       \cup UNION {{BinaryOp(o, l, r) : o \in {"opAnd", "opOr", "opEqual"},
                                       l \in BoolE(j), r \in BoolE(k - 1 - j)}
                   : j \in 0..(k - 1)}
       \cup UNION {{BinaryOp(o, l, r) : o \in {"opLessThan", "opNotEqual"},
                                       l \in IntE(j), r \in IntE(k - 1 - j)}
                   : j \in 0..(k - 1)}

TypedExprs == UNION {IntE(k) \cup BoolE(k) : k \in 0..MaxOps}

\* operands outside the grammar above: special operations, array elements,
\* calls with arguments, the literal 2147483648
OtherOperands ==
  { CastB, DerefB, True, NegMin, BareMin,
    ArrayDesignator(SymAB, <<One>>),
    ArrayDesignator(SymA, <<One, Designator(SymI)>>),
    FunctionCall(SymGB, <<BinaryOp("opLessThan", Designator(SymI), One)>>),
    FunctionCall(SymGB, <<BinaryOp("opAnd", Designator(SymB), FunctionCall(SymFB, <<>>))>>),
    FunctionCall(SymFI, <<>>),
    UnaryOp("opPos", One),
    SpecialOp("opAddress", Designator(SymA), NoType) }

OtherExprs ==
  OtherOperands
  \cup {UnaryOp("opNot", e) : e \in {CastB, DerefB, ArrayDesignator(SymAB, <<One>>)}}
  \cup {BinaryOp(o, l, r) : o \in {"opAnd", "opOr"},
          l \in {CastB, DerefB, True, ArrayDesignator(SymAB, <<One>>), Designator(SymB)},
          r \in {FunctionCall(SymFB, <<>>), CastB}}
  \cup {BinaryOp("opEqual", l, NegMin) : l \in {Designator(SymI), BareMin}}
  \cup {BinaryOp(o, FunctionCall(SymFI, <<>>), UnaryOp("opNeg", Designator(SymI))) :
          o \in {"opAdd", "opMul", "opLessThan", "opEqual"}}
  \cup {BinaryOp("opEqual", FunctionCall(SymFB, <<>>), UnaryOp("opNot", Designator(SymB)))}

\* a further integer variable, an array of three dimensions
SymJ  == VarSym("j", IntT)
Sym3  == VarSym("a3", ArrayOf(2, ArrayOf(3, ArrayOf(4, IntT))))
SymP1 == VarSym("pa", PointerTo(ArrayOf(2, IntT)))

\* array elements and partial arrays: one index up to as many indices as the
\* array has dimensions
IdxExprs ==
  {One, Designator(SymI), Designator(SymJ), BinaryOp("opAdd", Designator(SymJ), One)}
ElementExprs ==
  UNION {{ArrayDesignator(s, ix) : ix \in [1..m -> IdxExprs]} :
           s \in {SymA, SymAB, Sym3, SymP1}, m \in 1..3}

\* designators with indices of symbols that are no arrays, which TypeCheck
\* accepts, and operations on them
NoArrayExprs ==
  { ArrayDesignator(SymI, <<One>>), ArrayDesignator(SymPB, <<One>>),
    ArrayDesignator(SymX, <<One>>),
    SpecialOp("opAddress", ArrayDesignator(SymI, <<One>>), NoType),
    SpecialOp("opAddress", ArrayDesignator(SymX, <<One>>), NoType),
    UnaryOp("opNot", ArrayDesignator(SymX, <<One>>)),
    UnaryOp("opNot", ArrayDesignator(SymI, <<One>>)) }

Exprs == TypedExprs \cup OtherExprs \cup NoArrayExprs
         \cup {e \in ElementExprs : Len(e.idx) <= NDim(IF IsPointer(e.sym.type)
                                                        THEN PtrBase(e.sym.type)
                                                        ELSE e.sym.type)}

----------------------------------------------------------------------------
(* Generated statements and scopes.                                        *)

\* a procedure of an integer and a boolean parameter
SymH == ProcSym("h", NullT, <<IntT, BoolT>>)

\* the sequences over S of length at most n
SeqsUpTo(S, n) == UNION {[1..k -> S] : k \in 0..n}

AssignLhs ==
  { Designator(SymI), Designator(SymB), Designator(SymC), Designator(SymPB),
    Designator(SymA), Designator(SymN),
    ArrayDesignator(SymA, <<One, Designator(SymI)>>),
    ArrayDesignator(SymA, <<One>>),
    ArrayDesignator(SymA, <<One, One, One>>) }

AssignRhs ==
  { Designator(SymI), One, Designator(SymB), Designator(SymC), Designator(SymPB),
    Designator(SymA), ArrayDesignator(SymA, <<One>>),
    ArrayDesignator(SymA, <<One, One, One>>),
    BareMin, NegMin, FunctionCall(SymFI, <<>>), CastB,
    BinaryOp("opAdd", Designator(SymI), Designator(SymB)),
    ArrayDesignator(SymA, <<One, Designator(SymI)>>),
    BinaryOp("opAdd", Designator(SymI), One) }

Assigns == {StatAssign(l, r) : l \in AssignLhs, r \in AssignRhs}

\* arguments: well-typed ones, one that fails its own check, an array
ArgExprs ==
  { One, Designator(SymB), BareMin, Designator(SymA),
    FunctionCall(SymFI, <<>>), BinaryOp("opLessThan", Designator(SymI), One) }

Calls ==
  {FunctionCall(f, a) : f \in {SymFI, SymGB, SymH}, a \in SeqsUpTo(ArgExprs, MaxArgs)}

CallStats == {StatCall(c) : c \in Calls}

ReturnExprs ==
  { NoExpr, One, Designator(SymB), BareMin, Designator(SymA),
    ArrayDesignator(SymA, <<One, One, One>>) }

Returns == {StatReturn(t, e) : t \in {NullT, IntT, BoolT}, e \in ReturnExprs}

AssignOk  == StatAssign(Designator(SymI), One)
AssignBad == StatAssign(Designator(SymI), Designator(SymB))
CallBad   == StatCall(FunctionCall(SymFI, <<One>>))

\* conditions: boolean ones, ones of another or of no type, one that fails
\* its own check
Conds ==
  { Designator(SymB), BinaryOp("opLessThan", Designator(SymI), One),
    Designator(SymI), Designator(SymC), Designator(SymPB), Designator(SymA),
    ArrayDesignator(SymA, <<One, One, One>>),
    BinaryOp("opLessThan", BareMin, One) }

Bodies == SeqsUpTo({AssignOk, AssignBad}, MaxChain)

Ifs    == {StatIf(c, b1, b2) : c \in Conds, b1 \in Bodies, b2 \in Bodies}
Whiles == {StatWhile(c, b) : c \in Conds, b \in Bodies}


\* the statements of the generated scopes
IfOk      == StatIf(Designator(SymB), <<AssignOk>>, <<>>)
WhileOk   == StatWhile(BinaryOp("opLessThan", Designator(SymI), One),
                       <<AssignOk, StatCall(FunctionCall(SymP, <<>>))>>)
NestedOk  == StatIf(BinaryOp("opAnd", Designator(SymB), FunctionCall(SymFB, <<>>)),
                    <<WhileOk>>, <<IfOk, StatReturn(NullT, NoExpr)>>)
WhileBad  == StatWhile(Designator(SymI), <<AssignBad>>)
IfBad     == StatIf(Designator(SymB), <<AssignOk, CallBad>>, <<AssignBad>>)

\* a while statement over an if statement and a call
NestedWhile == StatWhile(Designator(SymB), <<IfOk, StatCall(FunctionCall(SymP, <<>>))>>)

Stats == Assigns \cup CallStats \cup Calls \cup Returns \cup Ifs \cup Whiles
         \cup {IfOk, WhileOk, NestedOk, NestedWhile}

ScopeStats == {AssignOk, IfOk, WhileOk, NestedOk, AssignBad, WhileBad, IfBad}

\* child scopes: a function that returns a value, a procedure that does
ChildOk  == Scope(IntT, <<StatReturn(IntT, One)>>, <<>>)
ChildBad == Scope(NullT, <<StatReturn(NullT, One)>>, <<>>)

Scopes ==
  {Scope(NullT, s, c) : s \in SeqsUpTo(ScopeStats, MaxChain),
                        c \in SeqsUpTo({ChildOk, ChildBad}, MaxChildren)}

----------------------------------------------------------------------------
(* The state machine.  A tree is built (Init), type-checked, and, when the *)
(* check succeeds, lowered.  ret records what the caller of the lowering   *)
(* holds: the returned address, the labels it passed, and the length of    *)
(* the stream before the call.  The public setters of the classes change   *)
(* the tree at any time before the lowering.  pc is                        *)
(*   "built"             the tree has not been checked                     *)
(*   "checked"           TypeCheck has run on the tree as it is            *)
(*   "changed"           a setter has changed the tree since its check     *)
(*   "lowered"           the tree was lowered as it was checked            *)
(*   "lowered_unchecked" the tree was lowered after such a change          *)
(*   "crashed"           the process was killed (SIGSEGV, failed assert)   *)

NoRet == [addr |-> NoAddr, ltrue |-> NoAddr, lfalse |-> NoAddr, next |-> NoAddr,
          base |-> 0]

Orders == {"LeftFirst", "RightFirst"}

ExprKinds == {"binary", "unary", "special", "call", "desig", "arraydesig", "const"}
StatKinds == {"assign", "statcall", "return", "if", "while"}

InitWith(trees) ==
  /\ node \in trees
  /\ order \in Orders
  /\ pc = "built"
  /\ tc = TcStart
  /\ cb = EmptyBlock
  /\ raw = <<>>
  /\ ret = NoRet
  /\ form = "none"

\* the values of pc after a setter and after a lowering to the block c
Edited == IF pc = "built" THEN "built" ELSE "changed"
Lowered(c) == IF c.segv THEN "crashed"
              ELSE IF pc = "checked" THEN "lowered" ELSE "lowered_unchecked"
\* the tree can still be changed; the caller of the lowering has seen a
\* successful check
Editable == pc \in {"built", "checked", "changed"}
Ready    == pc \in {"checked", "changed"} /\ tc.ok

\* the values, arguments, chains and child scopes the setters are called with
EditValues == {LL(0), LL(1), TwoPow31}
EditArgs   == {One, Designator(SymB)}
EditChains == {<<>>, <<AssignOk>>, <<AssignBad, AssignOk>>}
EditChildren == {ChildOk, ChildBad}

\* CAstConstant::SetValue on the tree, a constant
SetValue ==
  /\ Editable /\ node.kind = "const"
  /\ \E v \in EditValues \ {node.value} : node' = [node EXCEPT !.value = v]
  /\ pc' = Edited
  /\ UNCHANGED <<tc, cb, raw, ret, form, order>>

\* CAstFunctionCall::AddArg on the tree, a call
AddArg ==
  /\ Editable /\ node.kind = "call" /\ Len(node.args) < MaxArgs
  /\ \E a \in EditArgs : node' = [node EXCEPT !.args = Append(@, a)]
  /\ pc' = Edited
  /\ UNCHANGED <<tc, cb, raw, ret, form, order>>

\* CAstArrayDesignator::AddIndex on the tree, an array designator whose
\* indices are complete: assert(!_done) fails
AddIndex ==
  /\ Editable /\ node.kind = "arraydesig"
  /\ pc' = "crashed"
  /\ UNCHANGED <<node, tc, cb, raw, ret, form, order>>

\* CAstScope::SetStatementSequence on the tree, a scope
SetStatementSequence ==
  /\ Editable /\ node.kind = "scope"
  /\ \E s \in EditChains \ {node.stats} : node' = [node EXCEPT !.stats = s]
  /\ pc' = Edited
  /\ UNCHANGED <<tc, cb, raw, ret, form, order>>

\* CAstStatement::SetNext on the i-th statement of the chain of the tree, a
\* scope: the chain s replaces the statements behind it
SetNext ==
  /\ Editable /\ node.kind = "scope"
  /\ \E i \in 1..Len(node.stats) : \E s \in EditChains :
       /\ i + Len(s) <= MaxChain
       /\ SubSeq(node.stats, 1, i) \o s # node.stats
       /\ node' = [node EXCEPT !.stats = SubSeq(@, 1, i) \o s]
  /\ pc' = Edited
  /\ UNCHANGED <<tc, cb, raw, ret, form, order>>

\* CAstScope::AddChild on the tree, a scope
AddChild ==
  /\ Editable /\ node.kind = "scope" /\ Len(node.children) < MaxChildren
  /\ \E c \in EditChildren : node' = [node EXCEPT !.children = Append(@, c)]
  /\ pc' = Edited
  /\ UNCHANGED <<tc, cb, raw, ret, form, order>>

\* node->TypeCheck(&t, &msg)
DoTypeCheck ==
  /\ pc \in {"built", "changed"}
  /\ tc' = TypeCheck(node, <<>>, TcStart)
  /\ pc' = IF tc'.segv THEN "crashed" ELSE "checked"
  /\ UNCHANGED <<node, cb, raw, ret, form, order>>

\* expression->ToTac(cb)
DoToTac ==
  /\ Ready
  /\ node.kind \in ExprKinds
  /\ LET r == ToTac(node, cb)
     IN  /\ cb' = r.cb
         /\ ret' = [NoRet EXCEPT !.addr = r.addr, !.base = Len(cb.instrs)]
  /\ pc' = Lowered(cb')
  /\ form' = "value"
  /\ UNCHANGED <<node, tc, raw, order>>

\* a caller creates the labels on-true and on-false and calls
\* expression->ToTac(cb, ltrue, lfalse) on a boolean expression, or on a
\* unary operation of any operator (the code tests the operator itself, with
\* an assert)
DoToTacCond ==
  /\ Ready
  /\ node.kind \in ExprKinds
  /\ GetType(node) = BoolT \/ node.kind = "unary"
  /\ LET ltrue  == NewLabel(cb, "on_true")
         lfalse == NewLabel(CreateLabel(cb), "on_false")
         r == Lower("cond", node, CreateLabel(CreateLabel(cb)), ltrue, lfalse)
     IN  /\ cb' = r.cb
         /\ ret' = [NoRet EXCEPT !.addr = r.addr, !.ltrue = ltrue, !.lfalse = lfalse,
                                 !.base = Len(cb.instrs)]
  /\ pc' = Lowered(cb')
  /\ form' = "cond"
  /\ UNCHANGED <<node, tc, raw, order>>

\* one round of the statement loop of a scope on a single statement:
\* next = cb->CreateLabel(); statement->ToTac(cb, next); cb->AddInstr(next)
DoToTacStat ==
  /\ Ready
  /\ node.kind \in StatKinds
  /\ cb' = ToTacChain(<<node>>, 1, cb)
  /\ ret' = [NoRet EXCEPT !.next = NewLabel(cb, ""), !.base = Len(cb.instrs)]
  /\ pc' = Lowered(cb')
  /\ form' = "stat"
  /\ UNCHANGED <<node, tc, raw, order>>

\* scope->ToTac(cb)
DoScopeToTac ==
  /\ Ready
  /\ node.kind = "scope"
  /\ raw' = ScopeToTacEmit(node, cb).instrs
  /\ cb' = ScopeToTac(node, cb)
  /\ ret' = NoRet
  /\ pc' = Lowered(cb')
  /\ form' = "scope"
  /\ UNCHANGED <<node, tc, order>>

\* type-checking and lowering of a scope
Init == InitWith(Scopes)
Next == DoTypeCheck \/ DoScopeToTac \/ SetStatementSequence \/ SetNext \/ AddChild
Spec == Init /\ [][Next]_vars

\* type-checking and lowering of single statements and calls
InitStat == InitWith(Stats)
NextStat == DoTypeCheck \/ DoToTacStat \/ AddArg
SpecStat == InitStat /\ [][NextStat]_vars

\* type-checking and lowering of single expressions
InitExpr == InitWith(Exprs)
NextExpr == DoTypeCheck \/ DoToTac \/ DoToTacCond \/ SetValue \/ AddArg \/ AddIndex
SpecExpr == InitExpr /\ [][NextExpr]_vars

\* TypeCheck has run on the tree as it is, and has returned
Checked == pc \in {"checked", "lowered"}

\* the instructions the lowering appended
Emitted == SubSeq(cb.instrs, ret.base + 1, Len(cb.instrs))

----------------------------------------------------------------------------
(* Properties of TypeCheck.                                                *)

IsPrefix(p, q) == Len(p) <= Len(q) /\ SubSeq(q, 1, Len(p)) = p
\* TypeCheck was entered on the node at path p or on a node below it
Visited(p) == \E j \in 1..Len(tc.log) : IsPrefix(p, tc.log[j])
\* the position in the log of the node at path p
LogPos(p) == CHOOSE j \in 1..Len(tc.log) : tc.log[j] = p
\* the outcome of type-checking the node n at path p on its own
Alone(n, p) == TypeCheck(n, p, TcStart)

\* the nodes of the sequence seq, whose paths start with p, as [n, p] records
ItemsOf(seq, p) == [j \in 1..Len(seq) |-> [n |-> seq[j], p |-> p \o <<j>>]]
\* the items it[j] that fail on their own
BadItems(it) == {j \in 1..Len(it) : ~Alone(it[j].n, it[j].p).ok}
\* the items were visited in order up to and including item f, and no further
VisitedUpTo(it, f) ==
  /\ \A j \in 1..Len(it) : Visited(it[j].p) <=> j <= f
  /\ \A j, k \in 1..Len(it) : j < k /\ k <= f => LogPos(it[j].p) < LogPos(it[k].p)
\* the outcome is the one of the first failing item, or success after all
FirstFailure(it) ==
  /\ tc.ok <=> BadItems(it) = {}
  /\ BadItems(it) = {} => VisitedUpTo(it, Len(it))
  /\ BadItems(it) # {} =>
       LET f == Min(BadItems(it))
       IN  /\ tc.t = Alone(it[f].n, it[f].p).t
           /\ tc.msg = Alone(it[f].n, it[f].p).msg
           /\ VisitedUpTo(it, f)

\* the statements of a scope, then its child scopes
ScopeItems(n) == ItemsOf(n.stats, <<1>>) \o ItemsOf(n.children, <<2>>)
\* the condition of every visited if or while statement of the chain was
\* visited before the statements of its bodies
CondBeforeBodies(it) ==
  \A j \in 1..Len(it) : \A q \in {tc.log[x] : x \in 1..Len(tc.log)} :
    (/\ it[j].n.kind \in {"if", "while"}
     /\ IsPrefix(it[j].p, q) /\ Len(q) > Len(it[j].p)
     /\ q[Len(it[j].p) + 1] \in {2, 3})
    => /\ Visited(it[j].p \o <<1>>)
       /\ LogPos(it[j].p \o <<1>>) < LogPos(q)

\* C2: CAstScope::TypeCheck checks the statements in chain order, then the
\* child scopes in creation order; the first node that fails ends the check,
\* no later statement or child scope is checked, and the location and the
\* message reported are the ones of that node; within a statement the
\* condition is checked before the bodies.
C2_ScopeFirstError ==
  (node.kind = "scope" /\ Checked) =>
    /\ FirstFailure(ScopeItems(node))
    /\ CondBeforeBodies(ScopeItems(node))

\* a failing statement after a good one, with a later child scope unchecked
C2_Witness ==
  /\ node.kind = "scope" /\ pc = "checked"
  /\ node.stats = <<IfOk, IfBad>> /\ node.children = <<ChildBad>>
  /\ ~tc.ok /\ tc.t = <<1, 2, 2, 2, 1>>

\* the types of the two sides of an assignment
LhsType == GetType(node.lhs)
RhsType == GetType(node.rhs)
\* an assignment whose sides each type-check and whose types do not match
MismatchedAssign ==
  /\ node.kind = "assign" /\ Checked
  /\ Alone(node.lhs, <<1>>).ok /\ Alone(node.rhs, <<2>>).ok
  /\ ~Match(LhsType, RhsType)

\* C7 as stated: every assignment of mismatched types fails with the location
\* of the left-hand side.
C7_Original == MismatchedAssign => ~tc.ok /\ tc.t = <<1>>

\* C7: an assignment of mismatched types fails; the location is the one of
\* the left-hand side, except that it is the one of the right-hand side when
\* the left-hand side has a scalar type and the right-hand side has no type
\* or a type that is not scalar.
C7_AssignMismatch ==
  MismatchedAssign =>
    /\ ~tc.ok
    /\ tc.t = IF /\ LhsType # NoType /\ IsScalar(LhsType)
                 /\ (RhsType = NoType \/ ~IsScalar(RhsType))
              THEN <<2>> ELSE <<1>>

\* a boolean variable assigned an integer
C7_Witness ==
  /\ pc = "checked" /\ node = StatAssign(Designator(SymB), One)
  /\ ~tc.ok /\ tc.t = <<1>>

\* the call of a call statement or call expression, and its path
CallOf(n)   == IF n.kind = "statcall" THEN n.call ELSE n
CallPath(n) == IF n.kind = "statcall" THEN <<1>> ELSE <<>>
\* argument i type-checks and its type matches parameter i
ArgGood(call, cp, i) ==
  /\ Alone(call.args[i], cp \o <<i>>).ok
  /\ GetType(call.args[i]) # NoType
  /\ Match(call.sym.params[i], GetType(call.args[i]))
BadArgs(call, cp) == {i \in 1..Len(call.args) : ~ArgGood(call, cp, i)}

\* C8: a call type-checks iff it has as many arguments as the callee has
\* parameters and every argument type-checks and matches its parameter; an
\* arity mismatch is located at the call and no argument is checked;
\* otherwise the arguments are checked in index order and the error is the
\* one of the first argument that fails or mismatches.
C8_CallArguments ==
  (node.kind \in {"call", "statcall"} /\ Checked) =>
    LET call  == CallOf(node)
        cp    == CallPath(node)
        arity == Len(call.args) = Len(call.sym.params)
        args  == ItemsOf(call.args, cp)
    IN  /\ tc.ok <=> (arity /\ BadArgs(call, cp) = {})
        /\ ~arity => tc.t = cp /\ VisitedUpTo(args, 0)
        /\ (arity /\ BadArgs(call, cp) = {}) => VisitedUpTo(args, Len(args))
        /\ (arity /\ BadArgs(call, cp) # {}) =>
             LET f == Min(BadArgs(call, cp))
             IN  /\ VisitedUpTo(args, f)
                 /\ tc.t = IF Alone(call.args[f], cp \o <<f>>).ok
                           THEN cp \o <<f>>
                           ELSE Alone(call.args[f], cp \o <<f>>).t

\* a call statement whose second argument mismatches its parameter
C8_Witness ==
  /\ pc = "checked" /\ node = StatCall(FunctionCall(SymH, <<One, One>>))
  /\ ~tc.ok /\ tc.t = <<1, 2>>

\* C9: a return statement of a procedure fails iff it has an expression, with
\* the location of the expression; a return statement of a function fails
\* without an expression (location: the return statement), with an
\* expression that fails its own check, and with an expression whose type
\* does not match the return type (location: the expression); it succeeds
\* otherwise.
C9_Return ==
  (node.kind = "return" /\ Checked) =>
    IF node.scope = NullT
    THEN /\ tc.ok <=> node.expr = NoExpr
         /\ node.expr # NoExpr => tc.t = <<1>>
    ELSE IF node.expr = NoExpr
    THEN ~tc.ok /\ tc.t = <<>>
    ELSE IF ~Alone(node.expr, <<1>>).ok
    THEN ~tc.ok /\ tc.t = Alone(node.expr, <<1>>).t
    ELSE IF GetType(node.expr) # node.scope
    THEN ~tc.ok /\ tc.t = <<1>>
    ELSE tc.ok

\* a function of integer type that returns a boolean
C9_Witness ==
  /\ pc = "checked" /\ node = StatReturn(IntT, Designator(SymB))
  /\ ~tc.ok /\ tc.t = <<1>>

\* the statements of the bodies of an if or while statement
BodyItems(n) ==
  IF n.kind = "if" THEN ItemsOf(n.ifBody, <<2>>) \o ItemsOf(n.elseBody, <<3>>)
  ELSE ItemsOf(n.body, <<2>>)

\* C10: an if or while statement type-checks iff its condition type-checks,
\* the type of the condition is boolean, and every statement of its bodies
\* type-checks; a condition of another type or of no type is rejected at the
\* condition; the condition is checked first, then the if-body, then the
\* else-body, each in order, up to the first failure.
C10_IfWhile ==
  (node.kind \in {"if", "while"} /\ Checked) =>
    LET condOk == Alone(node.cond, <<1>>).ok
        isBool == GetType(node.cond) = BoolT
        body   == BodyItems(node)
    IN  /\ tc.log[1] = <<>> /\ tc.log[2] = <<1>>
        /\ ~condOk => /\ ~tc.ok /\ tc.t = Alone(node.cond, <<1>>).t
                      /\ VisitedUpTo(body, 0)
        /\ (condOk /\ ~isBool) => ~tc.ok /\ tc.t = <<1>> /\ VisitedUpTo(body, 0)
        /\ (condOk /\ isBool) => FirstFailure(body)

\* an if statement whose if-body fails at its second statement and whose
\* else-body would fail too
C10_Witness ==
  /\ pc = "checked"
  /\ node = StatIf(Designator(SymB), <<AssignOk, AssignBad>>, <<AssignBad>>)
  /\ ~tc.ok /\ tc.t = <<2, 2, 1>>

----------------------------------------------------------------------------
(* Properties of ToTac.                                                    *)

\* C1: the stream a scope has built when it calls the cleanup defines every
\* label that a goto or a conditional jump names exactly once, and defines
\* no label twice.
C1_LabelsDefinedOnce ==
  (pc = "lowered" /\ form = "scope") =>
    /\ \A l \in JumpTargets(raw) : Cardinality(LabelDefs(raw, l)) = 1
    /\ \A j, k \in 1..Len(raw) :
         (IsLabel(raw[j]) /\ IsLabel(raw[k]) /\ raw[j].dst = raw[k].dst) => j = k

\* a scope of nested if and while statements
C1_Witness ==
  /\ pc = "lowered" /\ form = "scope"
  /\ node.stats = <<NestedOk, WhileOk>>
  /\ Cardinality(JumpTargets(raw)) >= 8

\* INT_MIN of the 32-bit int
MinInt32 == (0 - MaxInt32) - 1

\* C3: -2147483648 type-checks, and its value form is the constant
\* -2147483648 with no instruction appended; the literal 2147483648 on its
\* own does not type-check.
C3_NegatedMinInt ==
  /\ (node = NegMin /\ Checked) => tc.ok
  /\ (node = NegMin /\ pc = "lowered" /\ form = "value") =>
       ret.addr = CTacConst(MinInt32) /\ Emitted = <<>>
  /\ (node = BareMin /\ Checked) => ~tc.ok

\* -2147483648 lowered in value form
C3_Witness ==
  /\ node = NegMin /\ pc = "lowered" /\ form = "value"
  /\ ret.addr.k = "const" /\ ret.addr.n < 0

\* the label the condition form of a binary operation creates first
NextCond == [ret.lfalse EXCEPT !.n = @ + 1, !.s = ""]
\* the code of the left operand of a lowered `and` or `or`: the instructions
\* before the definition of that label
LeftCode ==
  SubSeq(Emitted, 1, Min(LabelDefs(Emitted, NextCond) \cup {Len(Emitted) + 1}) - 1)

\* C4: in the condition form of `L or R` control leaves the code of L by a
\* jump to on-true when L is true and otherwise by a jump to the label in
\* front of the code of R, so no instruction of R is on the path of a true L;
\* for `L and R` control leaves the code of L by a jump to on-false or by a
\* jump to the label in front of the code of R.
C4_ShortCircuit ==
  (/\ pc = "lowered" /\ form = "cond"
   /\ node.kind = "binary" /\ node.oper \in LogicOps) =>
    /\ ~FallsThrough(LeftCode)
    /\ ExitLabels(LeftCode) \subseteq
         {NextCond, IF node.oper = "opOr" THEN ret.ltrue ELSE ret.lfalse}

\* C5: in the condition form of a boolean expression that type-checks every
\* path of control ends in a jump to on-true or to on-false; control does
\* not fall off the end of the emitted code.
C5_CondFormJumps ==
  (pc = "lowered" /\ form = "cond") =>
    /\ ~FallsThrough(Emitted)
    /\ ExitLabels(Emitted) \subseteq {ret.ltrue, ret.lfalse}

\* an instruction that assigns 1 or 0 to a boolean temporary
IsBoolAssign(i) ==
  /\ i.op = "opAssign" /\ i.dst.k = "temp" /\ i.dst.ty = BoolT
  /\ i.src1 \in {CTacConst(1), CTacConst(0)}
Materializes(code) == \E j \in 1..Len(code) : IsBoolAssign(code[j])

RECURSIVE InValuePosition(_)
RECURSIVE InCondPosition(_)
\* a relational, equality, and, or, not operation occurs in n, itself in a
\* position whose value is needed: n, or the operand of an arithmetic
\* operation, an argument of a call, an index of an array element
InValuePosition(n) ==
  CASE n.kind = "binary" ->
         n.oper \notin ArithOps \/ InValuePosition(n.left) \/ InValuePosition(n.right)
    [] n.kind = "unary" ->
         n.oper = "opNot" \/ (n.operand.kind # "const" /\ InValuePosition(n.operand))
    [] n.kind = "special" -> InValuePosition(n.operand)
    [] n.kind = "call" ->
         \E i \in 1..Len(n.args) : InValuePosition(n.args[i])
    [] n.kind = "arraydesig" ->
         \E i \in 1..Len(n.idx) : i <= NDim(n.sym.type) /\ InValuePosition(n.idx[i])
    [] OTHER -> FALSE
\* the same below the condition n: the operands of `and`, `or` and `not` are
\* conditions in turn, the operands of a comparison are values
InCondPosition(n) ==
  CASE n.kind = "binary" ->
         IF n.oper \in LogicOps
         THEN InCondPosition(n.left) \/ InCondPosition(n.right)
         ELSE InValuePosition(n.left) \/ InValuePosition(n.right)
    [] n.kind = "unary" -> InCondPosition(n.operand)
    [] n.kind = "special" -> FALSE
    [] OTHER -> InValuePosition(n)

\* C6 as stated: the condition form never assigns 1 or 0 to a boolean
\* temporary.
C6_Original == (pc = "lowered" /\ form = "cond") => ~Materializes(Emitted)

\* C6: the condition form assigns 1 or 0 to a boolean temporary exactly when
\* a relational, equality, and, or, not operation occurs as an operand of a
\* comparison, as an argument of a call or as an index, where its value is
\* needed; the expression itself and the operands of `and`, `or` and `not`
\* are never materialized.
C6_MaterializesValuesOnly ==
  (pc = "lowered" /\ form = "cond") =>
    (Materializes(Emitted) <=> InCondPosition(node))

\* an equality of two boolean operations in condition form
C6_Witness ==
  /\ pc = "lowered" /\ form = "cond"
  /\ node.kind = "binary" /\ node.oper = "opEqual"
  /\ node.left.kind = "binary" /\ node.left.oper = "opLessThan"
  /\ Materializes(Emitted)

----------------------------------------------------------------------------
(* Type-checking of single expressions: binary operations over operands of *)
(* every type, integer constants in and out of the range of the 32-bit     *)
(* int, array designators.                                                 *)

BinaryOps == ArithOps \cup LogicOps \cup EqOps \cup OrdOps

\* operands of integer, boolean, character, pointer and array type; of the
\* null type (a call of a procedure, and a variable of the null type, which
\* fails its own check); of no type (an array element with more indices than
\* dimensions); an integer operand that fails its own check
BinOperands ==
  { Designator(SymI), Designator(SymB), Designator(SymC), Designator(SymPB),
    Designator(SymA), FunctionCall(SymP, <<>>), Designator(SymN),
    ArrayDesignator(SymA, <<One, One, One>>), BareMin }

BinaryExprs == {BinaryOp(o, l, r) : o \in BinaryOps, l \in BinOperands, r \in BinOperands}

\* values of integer constants: within the range of the 32-bit int (0, 1,
\* 2147483647, -2147483648) and outside it (2147483648, 2147483649,
\* 4294967301, -2147483649)
ConstValues ==
  { LL(0), LL(1), LL(MaxInt32), LongLong(0 - 1, 0),
    TwoPow31, LongLong(1, 1), LongLong(2, 5), LongLong(0 - 2, MaxInt32) }
\* INT_MIN <= v <= INT_MAX
InIntRange(v) == v.hi \in {0 - 1, 0}

IntConstants == {Constant(IntT, v) : v \in ConstValues}
ConstantExprs ==
  IntConstants
  \cup {UnaryOp(o, c) : o \in {"opNeg", "opPos"}, c \in IntConstants}
  \cup {BinaryOp("opAdd", c, One) : c \in IntConstants}

\* a pointer to a one-dimensional array, and a function of an integer
SymPA == VarSym("pa", PointerTo(ArrayOf(2, IntT)))
SymGI == ProcSym("gi", IntT, <<IntT>>)

\* array designators: with as many indices as dimensions, with fewer, with
\* more (also through a pointer to the array), and of symbols that are no
\* arrays
ArrayDesigs ==
  { ArrayDesignator(SymA, <<One, One>>), ArrayDesignator(SymA, <<One>>),
    ArrayDesignator(SymA, <<One, One, One>>),
    ArrayDesignator(SymPA, <<One>>), ArrayDesignator(SymPA, <<One, One>>),
    ArrayDesignator(SymI, <<One>>), ArrayDesignator(SymPB, <<One>>),
    ArrayDesignator(SymA, <<One, Designator(SymB)>>) }

\* the nodes that enclose an array designator d
Enclosing(d) ==
  { SpecialOp("opAddress", d, NoType), SpecialOp("opCast", d, IntT),
    SpecialOp("opDeref", d, NoType),
    UnaryOp("opNeg", d), BinaryOp("opAdd", d, One), BinaryOp("opEqual", One, d),
    FunctionCall(SymGI, <<d>>), ArrayDesignator(SymA, <<d>>),
    UnaryOp("opNeg", SpecialOp("opCast", d, IntT)),
    StatAssign(d, One), StatAssign(Designator(SymI), d),
    StatAssign(Designator(SymPB), SpecialOp("opAddress", d, NoType)),
    StatReturn(IntT, d), StatCall(FunctionCall(SymGI, <<d>>)),
    StatIf(Designator(SymB), <<StatAssign(d, One)>>, <<>>),
    StatWhile(d, <<>>) }

DesignatorTrees == ArrayDesigs \cup UNION {Enclosing(d) : d \in ArrayDesigs}

\* operands of unary operations: constants of the value 2147483648 and of
\* other values, of integer, boolean, null and no type; operations on the
\* literal 2147483648; a variable of the null type; well-typed operands
UnaryOperands ==
  { BareMin, One, Constant(BoolT, TwoPow31), True,
    Constant(NullT, LL(1)), Constant(NoType, LL(1)), Constant(NullT, TwoPow31),
    BinaryOp("opAdd", BareMin, Constant(IntT, LL(0))),
    UnaryOp("opPos", BareMin), UnaryOp("opNeg", BareMin), UnaryOp("opNot", BareMin),
    Designator(SymN), Designator(SymI), Designator(SymB),
    ArrayDesignator(SymA, <<BareMin, One>>),
    ArrayDesignator(SymX, <<One>>), ArrayDesignator(SymI, <<One>>) }

UnaryExprs ==
  {UnaryOp(o, e) : o \in {"opNeg", "opPos", "opNot"}, e \in UnaryOperands}
  \cup {BinaryOp(o, l, r) : o \in {"opAdd", "opEqual", "opLessThan"},
                            l \in {BareMin, One}, r \in {BareMin, One}}

TypeExprs == BinaryExprs \cup ConstantExprs \cup DesignatorTrees \cup UnaryExprs

\* node->TypeCheck(&t, &msg) on a single expression
InitTypes == InitWith(TypeExprs)
NextTypes == DoTypeCheck \/ SetValue \/ AddIndex
SpecTypes == InitTypes /\ [][NextTypes]_vars

\* a type an operand of a binary operation may have according to C11: present,
\* not the null type, scalar, not a pointer
PlainScalar(t) == t # NoType /\ ~IsNull(t) /\ IsScalar(t) /\ ~IsPointer(t)
\* the restriction of operator oper on the (matching) operand type t
OperatorRule(oper, t) ==
  CASE oper \in ArithOps -> t = IntT
    [] oper \in LogicOps -> t = BoolT
    [] oper \in OrdOps   -> t # BoolT
    [] oper \in EqOps    -> TRUE

\* C11: a binary operation type-checks exactly when both operands type-check,
\* both operand types are present, not the null type, scalar and not pointers,
\* the two types match, and the operator's restriction holds: integer
\* operands for + - * /, boolean operands for and/or, no boolean operands for
\* < <= > >=, no restriction for = #.
C11_BinaryOperands ==
  (node.kind = "binary" /\ node.oper \in BinaryOps /\ Checked) =>
    (tc.ok <=> /\ Alone(node.left, <<1>>).ok /\ Alone(node.right, <<2>>).ok
               /\ PlainScalar(GetType(node.left)) /\ PlainScalar(GetType(node.right))
               /\ Match(GetType(node.left), GetType(node.right))
               /\ OperatorRule(node.oper, GetType(node.left)))

\* the integer constant the claim C12 is about: node itself, or the immediate
\* operand of node
OutOfRange(n) == n.kind = "const" /\ n.type = IntT /\ ~InIntRange(n.value)

\* C12: an integer constant whose value is outside [-2147483648, 2147483647]
\* does not type-check, and neither does an operation on it, except the unary
\* minus applied immediately to 2147483648.
C12_ConstantRange ==
  /\ (Checked /\ OutOfRange(node)) => ~tc.ok
  /\ (Checked /\ node.kind = "unary" /\ OutOfRange(node.operand)) =>
       (tc.ok <=> (node.oper = "opNeg" /\ node.operand.value = TwoPow31))
  /\ (Checked /\ node.kind = "binary" /\ OutOfRange(node.left)) => ~tc.ok

\* the nodes immediately below node n
ChildNodes(n) ==
  CASE n.kind = "binary"     -> {n.left, n.right}
    [] n.kind = "unary"      -> {n.operand}
    [] n.kind = "special"    -> {n.operand}
    [] n.kind = "call"       -> {n.args[i] : i \in 1..Len(n.args)}
    [] n.kind = "arraydesig" -> {n.idx[i] : i \in 1..Len(n.idx)}
    [] n.kind = "assign"     -> {n.lhs, n.rhs}
    [] n.kind = "statcall"   -> {n.call}
    [] n.kind = "return"     -> {n.expr} \ {NoExpr}
    [] n.kind = "if"         -> {n.cond} \cup {n.ifBody[i] : i \in 1..Len(n.ifBody)}
                                \cup {n.elseBody[i] : i \in 1..Len(n.elseBody)}
    [] n.kind = "while"      -> {n.cond} \cup {n.body[i] : i \in 1..Len(n.body)}
    [] OTHER                 -> {}

\* an array designator with more indices than the array has dimensions, or of
\* a symbol that (after the implicit dereference of a pointer) is no array
BadDesignator(n) ==
  /\ n.kind = "arraydesig"
  /\ LET st == IF IsPointer(n.sym.type) THEN PtrBase(n.sym.type) ELSE n.sym.type
     IN  ~IsArray(st) \/ Len(n.idx) > NDim(st)

RECURSIVE HasBadDesignator(_)
\* n is such a designator or encloses one
HasBadDesignator(n) ==
  BadDesignator(n) \/ \E c \in ChildNodes(n) : HasBadDesignator(c)

\* C13: an array designator with more indices than dimensions, or of a symbol
\* that is no array, does not type-check, and neither does a node that
\* encloses it, the address-of operation included.
C13_OverIndexed == (Checked /\ HasBadDesignator(node)) => ~tc.ok

----------------------------------------------------------------------------
(* Properties of the lowering of scopes and statements.                    *)

\* the instructions statement->ToTac(cb, next) appended: the emitted ones
\* without the label next, which the caller appends after the call
StatCode == SubSeq(Emitted, 1, Len(Emitted) - 1)

\* C15: the statement form of every statement appends `goto next` as its last
\* instruction and does not define the label next, which the caller defines
\* right after the call; control that enters the code of the statement does
\* not fall off its end and leaves it by no other label than next.
C15_EndsWithGotoNext ==
  (pc = "lowered" /\ form = "stat") =>
    /\ Len(StatCode) >= 1
    /\ StatCode[Len(StatCode)] = Goto(ret.next)
    /\ LabelDefs(StatCode, ret.next) = {}
    /\ Emitted[Len(Emitted)] = LabelInstr(ret.next)
    /\ ~FallsThrough(StatCode)
    /\ ExitLabels(StatCode) \subseteq {ret.next}

\* a lowered while statement, whose code names next twice
C15_Witness ==
  /\ pc = "lowered" /\ form = "stat"
  /\ node.kind = "while" /\ Len(node.body) = 2
  /\ Cardinality({j \in 1..Len(StatCode) : StatCode[j].dst = ret.next}) >= 2

\* the operations of the instructions of code, in order
OpsOf(code) == [j \in 1..Len(code) |-> code[j].op]
\* the block in which the statement form runs: the caller has created next
StatBlock == CreateLabel(EmptyBlock)
\* the value form of each side of the assignment, lowered on its own
RhsAlone == ToTac(node.rhs, StatBlock)
LhsAlone == ToTac(node.lhs, StatBlock)
\* the instructions that store into a variable or through a reference
Stores(code) == {j \in 1..Len(code) : code[j].op = "opAssign" /\ code[j].dst.k \in {"name", "ref"}}

\* C16: the code of an assignment is the code that evaluates the right-hand
\* side, then the code that computes the address of the left-hand side (the
\* DIM and DOFS calls and the index arithmetic of an array element), then
\* exactly one `assign dst, src`, then `goto next`.
C16_RhsBeforeLhs ==
  (pc = "lowered" /\ form = "stat" /\ node.kind = "assign") =>
    LET nr == Len(RhsAlone.cb.instrs)
        nl == Len(LhsAlone.cb.instrs)
    IN  /\ Len(StatCode) = nr + nl + 2
        /\ SubSeq(StatCode, 1, nr) = RhsAlone.cb.instrs
        /\ OpsOf(SubSeq(StatCode, nr + 1, nr + nl)) = OpsOf(LhsAlone.cb.instrs)
        /\ Stores(StatCode) = {nr + nl + 1}
        /\ StatCode[nr + nl + 1].src1 = RhsAlone.addr
        /\ StatCode[nr + nl + 1].dst.k = LhsAlone.addr.k
        /\ StatCode[nr + nl + 1].dst.s = LhsAlone.addr.s
        /\ StatCode[nr + nl + 2] = Goto(ret.next)

\* an array element assigned the result of a call: both sides emit code
C16_Witness ==
  /\ pc = "lowered" /\ form = "stat"
  /\ node = StatAssign(ArrayDesignator(SymA, <<One, Designator(SymI)>>),
                       FunctionCall(SymFI, <<>>))
  /\ StatCode[1].op = "opCall" /\ StatCode[2].op = "opAddress"
  /\ StatCode[Len(StatCode) - 1].dst.k = "ref"

\* the number of instructions the value form of expression e appends
CodeLen(e) == Len(ToTac(e, StatBlock).cb.instrs)

RECURSIVE ParamAt(_, _)
\* the position in the code of a call of the param instruction of argument i
\* (1-based): behind the code and the param instructions of the arguments
\* after i and behind the code of argument i
ParamAt(args, i) ==
  (IF i = Len(args) THEN 0 ELSE ParamAt(args, i + 1)) + CodeLen(args[i]) + 1

\* C17: the code of a call statement of n arguments is, for the arguments
\* n-1, n-2, ..., 0 in this order, the code of the argument immediately
\* followed by its param instruction, then one call instruction, then
\* `goto next`; there are exactly n param instructions, and the call has a
\* destination temporary iff the return type of the callee is not the null
\* type.
C17_CallStatement ==
  (pc = "lowered" /\ form = "stat" /\ node.kind = "statcall") =>
    LET args == node.call.args
        n    == Len(args)
        last == IF n = 0 THEN 0 ELSE ParamAt(args, 1)
        call == StatCode[last + 1]
    IN  /\ Len(StatCode) = last + 2
        /\ {j \in 1..Len(StatCode) : StatCode[j].op = "opParam"}
             = {ParamAt(args, i) : i \in 1..n}
        /\ \A i \in 1..n :
             LET j == ParamAt(args, i)
             IN  /\ StatCode[j].dst = CTacConst(i - 1)
                 /\ StatCode[j].src1.k = ToTac(args[i], StatBlock).addr.k
                 /\ OpsOf(SubSeq(StatCode, j - CodeLen(args[i]), j - 1))
                      = OpsOf(ToTac(args[i], StatBlock).cb.instrs)
        /\ call.op = "opCall" /\ call.src1 = CTacName(node.call.sym)
        /\ (call.dst.k = "temp") <=> (GetType(node.call) # NullT)
        /\ (call.dst = NoAddr) <=> (GetType(node.call) = NullT)
        /\ StatCode[last + 2] = Goto(ret.next)

\* a call of a procedure of two arguments, each of which emits code
C17_Witness ==
  /\ pc = "lowered" /\ form = "stat"
  /\ node = StatCall(FunctionCall(SymH,
              <<FunctionCall(SymFI, <<>>), BinaryOp("opLessThan", Designator(SymI), One)>>))
  /\ StatCode[Len(StatCode) - 1].dst = NoAddr
  /\ StatCode[Len(StatCode) - 2] .op = "opParam"
  /\ StatCode[Len(StatCode) - 2].dst = CTacConst(0)

\* the labels an if statement creates first; the block after them
IfTrue    == NewLabel(StatBlock, "if_true")
IfFalse   == NewLabel(CreateLabel(StatBlock), "if_false")
IfBlock   == CreateLabel(CreateLabel(StatBlock))
\* the position at which StatCode defines label l
DefAt(l) == CHOOSE j \in LabelDefs(StatCode, l) : TRUE

RECURSIVE ChainOps(_, _)
\* the operations of the statements of seq from statement i, each lowered on
\* its own and followed by its continuation label
ChainOps(seq, i) ==
  IF i > Len(seq) THEN <<>>
  ELSE OpsOf(ToTacChain(<<seq[i]>>, 1, EmptyBlock).instrs) \o ChainOps(seq, i + 1)

\* every label that code defines is defined once
FreshLabels(code) ==
  \A j, k \in 1..Len(code) :
    (IsLabel(code[j]) /\ IsLabel(code[k]) /\ code[j].dst = code[k].dst) => j = k

\* C18: the code of an if statement is the jumping code of the condition with
\* the fresh targets if_true and if_false, the label if_true, the statements
\* of the if-body each followed by a fresh label, `goto next`, the label
\* if_false, the statements of the else-body each followed by a fresh label,
\* `goto next`, also when a body is empty; no instruction of the else-body
\* is reachable from if_true within the code, and none of the if-body from
\* if_false.
C18_IfLayout ==
  (pc = "lowered" /\ form = "stat" /\ node.kind = "if") =>
    /\ Cardinality(LabelDefs(StatCode, IfTrue)) = 1
    /\ Cardinality(LabelDefs(StatCode, IfFalse)) = 1
    /\ FreshLabels(StatCode)
    /\ LET pT == DefAt(IfTrue)
           pF == DefAt(IfFalse)
           n  == Len(StatCode)
       IN  /\ SubSeq(StatCode, 1, pT - 1)
                = ToTacCond(node.cond, IfBlock, IfTrue, IfFalse).instrs
           /\ pT + 1 < pF /\ pF < n
           /\ OpsOf(SubSeq(StatCode, pT + 1, pF - 2)) = ChainOps(node.ifBody, 1)
           /\ StatCode[pF - 1] = Goto(ret.next)
           /\ OpsOf(SubSeq(StatCode, pF + 1, n - 1)) = ChainOps(node.elseBody, 1)
           /\ StatCode[n] = Goto(ret.next)
           /\ ReachFrom(StatCode, {pT}, {}) \cap (pF..n) = {}
           /\ ReachFrom(StatCode, {pF}, {}) \cap (pT..(pF - 1)) = {}

\* an if statement with an empty else-body
C18_Witness ==
  /\ pc = "lowered" /\ form = "stat" /\ node = IfOk
  /\ StatCode[Len(StatCode) - 1] = LabelInstr(IfFalse)
  /\ StatCode[Len(StatCode) - 2] = Goto(ret.next)
  /\ StatCode[3] = LabelInstr(IfTrue)

\* the labels a while statement creates first
WhileCond == NewLabel(StatBlock, "while_cond")
WhileBody == NewLabel(CreateLabel(StatBlock), "while_body")
\* the positions of the jumps of code to label l
JumpsTo(code, l) ==
  {j \in 1..Len(code) : (IsGoto(code[j]) \/ IsCondJump(code[j])) /\ code[j].dst = l}

\* C19: the code of a while statement is the label while_cond, the jumping
\* code of the condition with the targets while_body and next, the label
\* while_body, the statements of the body each followed by a fresh label,
\* `goto while_cond`, `goto next`; control that enters the body leaves it
\* only by the jump back to while_cond, the only jumps to next that control
\* can take are those of the condition, and the trailing `goto next` is
\* never reached.
C19_WhileLayout ==
  (pc = "lowered" /\ form = "stat" /\ node.kind = "while") =>
    /\ Cardinality(LabelDefs(StatCode, WhileBody)) = 1
    /\ LabelDefs(StatCode, WhileCond) = {1}
    /\ FreshLabels(StatCode)
    /\ LET pB == DefAt(WhileBody)
           n  == Len(StatCode)
           bodyPart == SubSeq(StatCode, pB, n - 1)
       IN  /\ SubSeq(StatCode, 2, pB - 1)
                = ToTacCond(node.cond, IfBlock, WhileBody, ret.next).instrs
           /\ pB < n - 1
           /\ OpsOf(SubSeq(StatCode, pB + 1, n - 2)) = ChainOps(node.body, 1)
           /\ StatCode[n - 1] = Goto(WhileCond)
           /\ StatCode[n] = Goto(ret.next)
           /\ ~FallsThrough(bodyPart)
           /\ ExitLabels(bodyPart) = {WhileCond}
           /\ JumpsTo(StatCode, ret.next) \subseteq (2..(pB - 1)) \cup {n}
           /\ JumpsTo(StatCode, ret.next) \cap (2..(pB - 1)) # {}
           /\ n \notin Reachable(StatCode)
           /\ (n - 1) \in Reachable(StatCode)

\* a while statement over an if statement and a call
C19_Witness ==
  /\ pc = "lowered" /\ form = "stat" /\ node = NestedWhile
  /\ StatCode[1] = LabelInstr(WhileCond)
  /\ StatCode[4] = LabelInstr(WhileBody)
  /\ Len(StatCode) > 12

----------------------------------------------------------------------------
(* Properties of the condition form of `not`.                              *)

\* the block in which the condition form runs: the caller has created the
\* labels on-true and on-false
CondBlock == CreateLabel(CreateLabel(EmptyBlock))
\* the instructions the condition form of e appends for the targets lt and lf
CondCode(e, lt, lf) == ToTacCond(e, CondBlock, lt, lf).instrs
\* code with the targets on-true and on-false of its jumps exchanged
SwapTargets(code) ==
  [j \in 1..Len(code) |->
     IF code[j].dst = ret.ltrue THEN [code[j] EXCEPT !.dst = ret.lfalse]
     ELSE IF code[j].dst = ret.lfalse THEN [code[j] EXCEPT !.dst = ret.ltrue]
     ELSE code[j]]

\* C20: the condition form of `not e` for the targets (T, F) appends exactly
\* the instructions of the condition form of e for the targets (F, T), which
\* are those of e for (T, F) with T and F exchanged; the condition form of
\* `not not e` for (T, F) appends the instructions of e for (T, F).
C20_NotSwapsTargets ==
  (pc = "lowered" /\ form = "cond" /\ node.kind = "unary" /\ node.oper = "opNot") =>
    /\ Emitted = CondCode(node.operand, ret.lfalse, ret.ltrue)
    /\ Emitted = SwapTargets(CondCode(node.operand, ret.ltrue, ret.lfalse))
    /\ (node.operand.kind = "unary" /\ node.operand.oper = "opNot") =>
         Emitted = CondCode(node.operand.operand, ret.ltrue, ret.lfalse)

\* `not (i < 1)` in condition form: the comparison jumps to on-false
C20_Witness ==
  /\ pc = "lowered" /\ form = "cond"
  /\ node = UnaryOp("opNot", BinaryOp("opLessThan", Designator(SymI), One))
  /\ Len(Emitted) = 2
  /\ Emitted[1].op = "opLessThan" /\ Emitted[1].dst = ret.lfalse
  /\ Emitted[2] = Goto(ret.ltrue)

----------------------------------------------------------------------------
(* Properties of the value form of operations.                             *)

\* a relational, equality, and, or operation, or a `not`
IsBoolOperation(n) ==
  \/ n.kind = "binary" /\ n.oper \in LogicOps \cup EqOps \cup OrdOps
  \/ n.kind = "unary" /\ n.oper = "opNot"

\* the three labels the value form of a boolean operation creates first, and
\* the block after them
ValTrue  == NewLabel(EmptyBlock, "")
ValFalse == NewLabel(CreateLabel(EmptyBlock), "")
ValEnd   == NewLabel(CreateLabel(CreateLabel(EmptyBlock)), "")
ValBlock == CreateLabel(CreateLabel(CreateLabel(EmptyBlock)))
\* the emitted code in front of its last six instructions
ValCond  == SubSeq(Emitted, 1, Len(Emitted) - 6)
\* the instructions of code that name address a
Mentions(code, a) ==
  {j \in 1..Len(code) : code[j].dst = a \/ code[j].src1 = a \/ code[j].src2 = a}

\* C21: the value form of a boolean operation is its condition form for three
\* fresh labels true, false, end, followed by `true: t := 1; goto end;
\* false: t := 0; end:` with a fresh boolean temporary t, which is returned;
\* control leaves the condition form only by a jump to true or to false, so
\* that on every path to end t is assigned once, 1 iff the true exit was
\* taken.
C21_BoolValueForm ==
  (pc = "lowered" /\ form = "value" /\ IsBoolOperation(node)) =>
    LET n == Len(Emitted)
        t == ret.addr
    IN  /\ n >= 6
        /\ t.k = "temp" /\ t.ty = BoolT
        /\ SubSeq(Emitted, n - 5, n)
             = << LabelInstr(ValTrue), Instr("opAssign", t, CTacConst(1), NoAddr),
                  Goto(ValEnd), LabelInstr(ValFalse),
                  Instr("opAssign", t, CTacConst(0), NoAddr), LabelInstr(ValEnd) >>
        /\ ValCond = ToTacCond(node, ValBlock, ValTrue, ValFalse).instrs
        /\ FreshLabels(Emitted)
        /\ Mentions(ValCond, t) = {}
        /\ JumpsTo(ValCond, ValEnd) = {}
        /\ ~FallsThrough(ValCond)
        /\ ExitLabels(ValCond) \subseteq {ValTrue, ValFalse}

\* C22: no instruction of a lowered stream has the operation `and` or `or`,
\* in the condition form and in the value form alike; an `and` or `or` is
\* lowered to labels, conditional jumps and gotos (and, in value form, the
\* two assignments of 1 and 0 to its temporary).
C22_NoAndOrOpcode ==
  (pc = "lowered") =>
    /\ \A j \in 1..Len(cb.instrs) : cb.instrs[j].op \notin LogicOps
    /\ (node.kind = "binary" /\ node.oper \in LogicOps
        /\ node.left.kind = "desig" /\ node.right.kind = "desig") =>
         \A j \in 1..Len(Emitted) :
           \/ IsLabel(Emitted[j]) \/ IsGoto(Emitted[j]) \/ IsCondJump(Emitted[j])
           \/ (form = "value" /\ IsBoolAssign(Emitted[j]))

\* `b and fb()` passed to a call as its argument
C22_Witness ==
  /\ pc = "lowered" /\ form = "value"
  /\ node = FunctionCall(SymGB, <<BinaryOp("opAnd", Designator(SymB), FunctionCall(SymFB, <<>>))>>)
  /\ Materializes(Emitted)
  /\ Emitted[Len(Emitted) - 1].op = "opParam"

----------------------------------------------------------------------------
(* The arithmetic of the code of an array element.  The code is run on a   *)
(* machine whose state holds the values of the temporaries, the parameters *)
(* pushed for the next call, the dimension arguments of the DIM calls so   *)
(* far and the number of DOFS calls so far.                                *)

\* the address of the array at run time, and the value DOFS returns for it
BaseAddr == 1000
DofsVal  == 8
\* the values of the variables i and j at run time
VarVals == 0..2

RECURSIVE Extent(_, _)
\* the number of elements of dimension d (1-based) of array type t
Extent(t, d) == IF d = 1 THEN t.n ELSE Extent(t.base, d - 1)

Machine0(code) ==
  [temps |-> [x \in 1..Len(code) |-> 0], params |-> [x \in 0..1 |-> 0],
   dims |-> <<>>, dofs |-> 0]

\* the value of address a: a constant, a temporary, the variable i or j, or
\* the array (the pointer to the array), whose value is its address
ValOf(m, a, vi, vj) ==
  CASE a.k = "const" -> a.n
    [] a.k = "temp"  -> m.temps[a.n]
    [] a.k = "name"  -> IF a.s = "i" THEN vi ELSE IF a.s = "j" THEN vj ELSE BaseAddr
    [] OTHER         -> 0

\* the machine after instruction ins; arr is the array type DIM reports on
Step(m, ins, arr, vi, vj) ==
  CASE ins.op = "opAddress" ->
         [m EXCEPT !.temps[ins.dst.n] = ValOf(m, ins.src1, vi, vj)]
    [] ins.op = "opParam" ->
         [m EXCEPT !.params[ins.dst.n] = ValOf(m, ins.src1, vi, vj)]
    [] ins.op = "opCall" /\ ins.src1.s = "DIM" ->
         [m EXCEPT !.temps[ins.dst.n] = Extent(arr, m.params[1]),
                   !.dims = Append(@, m.params[1])]
    [] ins.op = "opCall" /\ ins.src1.s = "DOFS" ->
         [m EXCEPT !.temps[ins.dst.n] = DofsVal, !.dofs = @ + 1]
    [] ins.op = "opAdd" ->
         [m EXCEPT !.temps[ins.dst.n] =
                     ValOf(m, ins.src1, vi, vj) + ValOf(m, ins.src2, vi, vj)]
    [] ins.op = "opMul" ->
         [m EXCEPT !.temps[ins.dst.n] =
                     ValOf(m, ins.src1, vi, vj) * ValOf(m, ins.src2, vi, vj)]
    [] OTHER -> m

RECURSIVE Exec(_, _, _, _, _, _)
\* the machine after the instructions of code from position j
Exec(code, j, m, arr, vi, vj) ==
  IF j > Len(code) THEN m
  ELSE Exec(code, j + 1, Step(m, code[j], arr, vi, vj), arr, vi, vj)

\* the machine after code, started with all temporaries 0
RunCode(code, arr, vi, vj) == Exec(code, 1, Machine0(code), arr, vi, vj)

\* the value of index expression e
IndexVal(e, vi, vj) ==
  CASE e.kind = "const"  -> e.value.lo
    [] e.kind = "desig"  -> IF e.sym.name = "i" THEN vi ELSE vj
    [] e.kind = "binary" -> vj + 1

RECURSIVE Linear(_, _, _, _, _)
\* (...((i1*D2 + i2)*D3 + i3)...)*Dd + id for the indices of n, a missing
\* index taken as 0
Linear(n, arr, d, vi, vj) ==
  LET ix == IF d <= Len(n.idx) THEN IndexVal(n.idx[d], vi, vj) ELSE 0
  IN  IF d = 1 THEN ix
      ELSE Linear(n, arr, d - 1, vi, vj) * Extent(arr, d) + ix

\* the address the code of array designator n computes: the value of the
\* temporary of the returned reference
ElementAddr(n, vi, vj) ==
  LET r == ToTac(n, EmptyBlock)
  IN  RunCode(r.cb.instrs, ArrayTypeOf(n), vi, vj).temps[r.addr.n]

\* C23: for an array of k dimensions, element size s and 1 <= m <= k indices
\* the emitted code computes base + DOFS(array) + s * ((...(i1*D2 + i2)...)*Dk
\* + ik), missing indices taken as 0, with exactly the DIM calls for the
\* dimensions 2..k in this order and one DOFS call; the returned address is
\* a reference through the temporary that holds the result; for two
\* dimensions the addresses of a[i][j] and a[i][j+1] differ by s.
C23_ElementAddress ==
  (pc = "lowered" /\ form = "value" /\ node.kind = "arraydesig") =>
    LET arr == ArrayTypeOf(node)
        k   == NDim(arr)
        s   == SizeOf(ElemType(arr))
    IN  /\ ret.addr.k = "ref" /\ ret.addr.s = node.sym.name
        /\ \A vi \in VarVals, vj \in VarVals :
             LET m == RunCode(Emitted, arr, vi, vj)
             IN  /\ m.temps[ret.addr.n]
                      = BaseAddr + DofsVal + s * Linear(node, arr, k, vi, vj)
                 /\ m.dims = [d \in 1..(k - 1) |-> d + 1]
                 /\ m.dofs = 1
        /\ (k = 2 /\ node.idx = <<Designator(SymI), Designator(SymJ)>>) =>
             \A vi \in VarVals, vj \in VarVals :
               ElementAddr([node EXCEPT !.idx[2] = BinaryOp("opAdd", Designator(SymJ), One)],
                           vi, vj)
                 = RunCode(Emitted, arr, vi, vj).temps[ret.addr.n] + s

\* a[i][j] of the array a of two dimensions, lowered
C23_Witness ==
  /\ pc = "lowered" /\ form = "value"
  /\ node = ArrayDesignator(SymA, <<Designator(SymI), Designator(SymJ)>>)
  /\ RunCode(Emitted, ArrayTypeOf(node), 2, 1).temps[ret.addr.n]
       = BaseAddr + DofsVal + 4 * (2 * 3 + 1)
  /\ RunCode(Emitted, ArrayTypeOf(node), 2, 1).dims = <<2>>

----------------------------------------------------------------------------
(* Properties of TypeCheck of unary operations and of the out-parameters.  *)

\* C24: a unary operation whose operand fails its own check type-checks only
\* if the operator is the unary minus and the operand itself is a constant
\* node; unary plus and `not` on the literal 2147483648 fail, the unary
\* minus on an operation that fails (2147483648 + 0, a unary operation that
\* fails) fails, and a binary operation on the literal 2147483648 fails.
C24_SuppressionIsNarrow ==
  /\ (Checked /\ node.kind = "unary" /\ ~Alone(node.operand, <<1>>).ok) =>
       (tc.ok <=> (node.oper = "opNeg" /\ node.operand.kind = "const"))
  /\ (Checked /\ node.kind = "binary" /\ BareMin \in {node.left, node.right}) =>
       ~tc.ok

\* -(2147483648 + 0) does not type-check; the error is the one of the literal
C24_Witness ==
  /\ pc = "checked"
  /\ node = UnaryOp("opNeg", BinaryOp("opAdd", BareMin, Constant(IntT, LL(0))))
  /\ ~tc.ok /\ tc.t = <<1, 1>>

\* C25: whenever TypeCheck has returned success, the token and the message
\* of the caller still hold the values they had before the call.
C25_OutParamsOnSuccess ==
  (Checked /\ tc.ok) => (tc.t = TcStart.t /\ tc.msg = TcStart.msg)

----------------------------------------------------------------------------
(* Properties of the code of special operations and of operand order.      *)

\* C26: the value form of a special operation ends with an instruction of
\* the operator of the node: "address-of" into a temporary of the type
\* pointer-to-operand is emitted for address-of nodes only, never for a
\* dereference or a cast.
C26_SpecialOpcode ==
  (pc = "lowered" /\ form = "value" /\ node.kind = "special") =>
    /\ Len(Emitted) > 0
    /\ Emitted[Len(Emitted)].op = node.oper
    /\ (Emitted[Len(Emitted)].op = "opAddress" =>
          /\ node.oper = "opAddress"
          /\ ret.addr.ty = PointerTo(GetType(node.operand)))

\* the opcodes of the value form and of the condition form of an operand
\* lowered alone
OperandOps(e) == OpsOf(ToTac(e, EmptyBlock).cb.instrs)
OperandCondOps(e) ==
  LET c1 == CreateLabel(EmptyBlock)
      c2 == CreateLabel(c1)
  IN  OpsOf(ToTacCond(e, c2, NewLabel(EmptyBlock, ""), NewLabel(c1, "")).instrs)

\* the code of a binary operation up to its last jump: the whole code in the
\* condition form and of an arithmetic operation, the part before the two
\* assignments in the value form of a boolean operation
BinaryCode ==
  IF form = "value" /\ IsBoolOperation(node) THEN ValCond ELSE Emitted

\* C27: in the code of every binary operation, in the value form and in the
\* condition form, all instructions of the left operand come before all
\* instructions of the right operand, whatever order the compiler of the
\* program evaluates the arguments of a call in.
C27_LeftBeforeRight ==
  (pc = "lowered" /\ node.kind = "binary") =>
    IF node.oper \in {"opAnd", "opOr"}
    THEN OpsOf(BinaryCode) =
           OperandCondOps(node.left) \o <<"opLabel">> \o OperandCondOps(node.right)
    ELSE \E tail \in {<<node.oper>>, <<node.oper, "opGoto">>} :
           OpsOf(BinaryCode) =
             OperandOps(node.left) \o OperandOps(node.right) \o tail

\* C28: the unary minus forgives only the range failure of the literal
\* 2147483648: on a constant of the null type or of no type it fails, and a
\* unary minus that type-checks has an operand of integer type.
C28_CarveOutIsNumeric ==
  (Checked /\ node.kind = "unary" /\ node.oper = "opNeg") =>
    /\ (node.operand.kind = "const"
        /\ (node.operand.type = NoType \/ IsNull(node.operand.type))) => ~tc.ok
    /\ tc.ok => (GetType(node.operand) # NoType /\ Match(GetType(node.operand), IntT))

============================================================================
